---------------------------- MODULE Spec2Model ----------------------------
(***************************************************************************)
(* Course-content delivery backend: the read-through cache (fast store     *)
(* with an embedded SQLite fallback), the durable object store and the     *)
(* quiz grader, modelled from app/services/*.py.                           *)
(*                                                                         *)
(* Strings that the code takes apart (cache keys, glob patterns, chapter   *)
(* ids) are sequences of one-character strings.  Python's None is the      *)
(* string "None" where a string is expected and NULL where an integer is   *)
(* expected.                                                               *)
(***************************************************************************)
EXTENDS Integers, Sequences, FiniteSets, TLC

\* ------------------------------------------------------------------ bounds
\* Number of clock ticks (seconds) the model lets pass.
MaxTicks == 2
\* Longest list of answers in a submission.
MaxAnswers == 2
\* Longest list of answers in a submission of the feedback scenario.
MaxRepeats == 5

\* --------------------------------------------------------------- constants
\* settings.REDIS_CACHE_TTL, the default_ttl of CacheService.
REDIS_CACHE_TTL == 3600
\* SQL NULL / Python None in an integer position (expires_at, ttl).
NULL == -1
\* time.time() when the process starts, in whole seconds.
Epoch == 10

None == "None"

\* The request tasks running concurrently on the event loop.
Tasks == {1, 2}

\* Python truthiness of an Optional[int].
Truthy(x) == x # NULL /\ x # 0

\* ------------------------------------------------------------------ inputs
KeyC1 == <<"c", "1">>
KeyQ1 == <<"q", "1">>
Keys == {KeyC1, KeyQ1}
\* The set calls drawn when the clock runs: <<key, value, ttl>>.
Writes == {<<KeyC1, "v2", 1>>, <<KeyQ1, "v1", 0>>}
Patterns == {<<"c", "*">>, <<"*">>}
\* The keys and globs of the pattern-clear scenario.
Chapter01 == <<"c", "h", "a", "p", "t", "e", "r", ":", "0", "1">>
Chapter02 == <<"c", "h", "a", "p", "t", "e", "r", ":", "0", "2">>
ChapterUp03 == <<"C", "h", "a", "p", "t", "e", "r", ":", "0", "3">>
Quiz01 == <<"q", "u", "i", "z", ":", "0", "1">>
PatternKeys == {Chapter01, Chapter02, ChapterUp03, Quiz01}
ChapterGlob == <<"c", "h", "a", "p", "t", "e", "r", ":", "*">>
QuizGlob == <<"q", "u", "i", "z", ":", "*">>
PrefixGlobs == {ChapterGlob, QuizGlob}
\* How an awaited fast-store call ends: it returns, asyncio.wait_for times
\* out, the awaiting task is cancelled, or the client raises.
Outcomes == {"ok", "timeout", "cancelled", "error"}

\* --------------------------------------------------------- partial maps
Remove(f, ks) == [k \in DOMAIN f \ ks |-> f[k]]
\* INSERT OR IGNORE: a row that is there stays.
PutIfAbsent(f, k, v) == IF k \in DOMAIN f THEN f ELSE (k :> v) @@ f
Put(f, k, v) == (k :> v) @@ f
EmptyMap == [k \in {} |-> None]

\* ---------------------------------------------------------------- matching
\* Redis KEYS glob, restricted to literal characters and '*'.
RECURSIVE GlobMatch(_, _)
GlobMatch(p, s) ==
    IF p = <<>> THEN s = <<>>
    ELSE IF Head(p) = "*"
         THEN GlobMatch(Tail(p), s) \/ (s # <<>> /\ GlobMatch(p, Tail(s)))
         ELSE s # <<>> /\ Head(s) = Head(p) /\ GlobMatch(Tail(p), Tail(s))

\* ASCII case folding, as SQLite's LIKE compares letters.
UpperCase ==
    <<"A", "B", "C", "D", "E", "F", "G", "H", "I", "J", "K", "L", "M",
      "N", "O", "P", "Q", "R", "S", "T", "U", "V", "W", "X", "Y", "Z">>
LowerCase ==
    <<"a", "b", "c", "d", "e", "f", "g", "h", "i", "j", "k", "l", "m",
      "n", "o", "p", "q", "r", "s", "t", "u", "v", "w", "x", "y", "z">>
Lower(c) ==
    IF \E i \in DOMAIN UpperCase : UpperCase[i] = c
    THEN LowerCase[CHOOSE i \in DOMAIN UpperCase : UpperCase[i] = c]
    ELSE c

\* SQLite's LIKE without ESCAPE: '%' matches any run of characters, '_' any
\* one character, letters match without regard to ASCII case.
RECURSIVE LikeMatch(_, _)
LikeMatch(p, s) ==
    IF p = <<>> THEN s = <<>>
    ELSE IF Head(p) = "%"
         THEN LikeMatch(Tail(p), s) \/ (s # <<>> /\ LikeMatch(p, Tail(s)))
         ELSE /\ s # <<>>
              /\ (Head(p) = "_" \/ Lower(Head(s)) = Lower(Head(p)))
              /\ LikeMatch(Tail(p), Tail(s))

\* pattern.replace("*", "%")
SqlPattern(pattern) ==
    [i \in 1..Len(pattern) |-> IF pattern[i] = "*" THEN "%" ELSE pattern[i]]

\* ---------------------------------------------------------------- quiz data
\* QuizService.COURSE_PREFIX
COURSE_PREFIX == "genai-fundamentals"

Ch01 == <<"0", "1">>
Ch02 == <<"0", "2">>
Chapters == {Ch01, Ch02}

\* cache_key = f"quiz:{chapter_id}"
QuizCacheKey(chapter_id) == <<"q", "u", "i", "z", ":">> \o chapter_id

\* key = f"{self.COURSE_PREFIX}/quizzes/quiz-{chapter_id}.json"
QuizObjectKey(chapter_id) ==
    <<COURSE_PREFIX, "/quizzes/quiz-", chapter_id, ".json">>

\* Questions as the quiz files hold them: multiple choice with
\* correct_answer_index, true/false with correct_answer.
Q1 ==
    [question_id |-> "q1", type |-> "multiple_choice", question |-> "Q1?",
     options |-> <<"a", "b", "c">>, difficulty |-> "easy",
     correct_answer_index |-> 0, explanation |-> "e1"]
Q2 ==
    [question_id |-> "q2", type |-> "multiple_choice", question |-> "Q2?",
     options |-> <<"a", "b", "c">>, difficulty |-> "moderate",
     correct_answer_index |-> 2, explanation |-> "e2"]
Q3 ==
    [question_id |-> "q3", type |-> "true_false", question |-> "Q3?",
     options |-> <<"False", "True">>, difficulty |-> "easy",
     correct_answer |-> TRUE, explanation |-> "e3"]
Q4 ==
    [question_id |-> "q4", type |-> "true_false", question |-> "Q4?",
     options |-> <<"False", "True">>, difficulty |-> "hard",
     correct_answer |-> FALSE]

\* Quiz files: the two-question quiz with answer keys 0 and 2, a quiz with
\* true/false questions and a lower passing score, and a quiz file without
\* passing_score.
QuizDoc01 ==
    [quiz_id |-> "quiz-01", chapter_id |-> "01", title |-> "Quiz 1",
     total_questions |-> 2, passing_score |-> 70, questions |-> <<Q1, Q2>>]
QuizDoc02 ==
    [quiz_id |-> "quiz-02", chapter_id |-> "02", title |-> "Quiz 2",
     total_questions |-> 3, passing_score |-> 50, questions |-> <<Q3, Q4, Q1>>]
QuizDoc03 ==
    [quiz_id |-> "quiz-03", chapter_id |-> "01", title |-> "Quiz 3",
     total_questions |-> 2, questions |-> <<Q2, Q3>>]

\* A one-question quiz that sets the bar at 85.
QuizDoc04 ==
    [quiz_id |-> "quiz-04", chapter_id |-> "01", title |-> "Quiz 4",
     total_questions |-> 1, passing_score |-> 85, questions |-> <<Q1>>]

\* JSON texts are named; the pretty-printed and the compact text of a
\* document parse to the same document.
JsonTexts == {"quiz01", "quiz01_pretty", "quiz02", "quiz03", "quiz04"}

\* json.loads raises JSONDecodeError on any other text.
JsonValid(text) == text \in JsonTexts

\* json.loads(text)
JsonLoads(text) ==
    CASE text \in {"quiz01", "quiz01_pretty"} -> QuizDoc01
      [] text = "quiz02" -> QuizDoc02
      [] text = "quiz03" -> QuizDoc03
      [] text = "quiz04" -> QuizDoc04

\* json.dumps(doc): the compact text.
JsonDumps(doc) ==
    CASE doc.quiz_id = "quiz-01" -> "quiz01"
      [] doc.quiz_id = "quiz-02" -> "quiz02"
      [] doc.quiz_id = "quiz-03" -> "quiz03"
      [] doc.quiz_id = "quiz-04" -> "quiz04"

\* ----------------------------------------------------------- public quiz
SecretFields == {"correct_answer_index", "correct_answer", "explanation"}
\* The fields of the pydantic models QuizQuestion and Quiz, all required.
QuizQuestionFields ==
    {"question_id", "type", "question", "options", "difficulty"}
QuizFields ==
    {"quiz_id", "chapter_id", "title", "total_questions", "passing_score",
     "questions"}

\* dict.pop(name, None) for every name in names.
Pop(d, names) == [f \in DOMAIN d \ names |-> d[f]]

\* A pydantic model built from d keeps the declared fields and ignores the
\* others.
Declared(d, fields) == [f \in DOMAIN d \cap fields |-> d[f]]

\* The deep copy of quiz_data with the three pops applied to every question
\* of public_quiz.get("questions", []).
StripAnswers(quiz_data) ==
    IF "questions" \in DOMAIN quiz_data
    THEN [f \in DOMAIN quiz_data |->
            IF f = "questions"
            THEN [i \in DOMAIN quiz_data.questions |->
                    Pop(quiz_data.questions[i], SecretFields)]
            ELSE quiz_data[f]]
    ELSE quiz_data

\* Quiz(**d) validates: every required field is there.
QuizValid(d) ==
    /\ QuizFields \subseteq DOMAIN d
    /\ \A i \in DOMAIN d.questions :
          QuizQuestionFields \subseteq DOMAIN d.questions[i]

\* Quiz(**d)
QuizModel(d) ==
    [f \in QuizFields |->
       IF f = "questions"
       THEN [i \in DOMAIN d.questions |->
               Declared(d.questions[i], QuizQuestionFields)]
       ELSE d[f]]

\* PublicQuiz handing out quiz_data as loaded.
PublicQuizAsLoaded(quiz_data) == quiz_data

\* get_quiz from "Prepare public version" on: the Quiz it returns.
PublicQuiz(quiz_data) == QuizModel(StripAnswers(quiz_data))

\* ---------------------------------------------------------------- grading
\* next((q for q in quiz_data["questions"] if q["question_id"] == id), None):
\* the position of the first such question, 0 for None.
FindQuestion(questions, id) ==
    IF \E i \in DOMAIN questions : questions[i].question_id = id
    THEN CHOOSE i \in DOMAIN questions :
            /\ questions[i].question_id = id
            /\ \A j \in 1..(i - 1) : questions[j].question_id # id
    ELSE 0

\* CorrectIndex reading correct_answer the wrong way round.
CorrectIndexInverted(question) ==
    IF "correct_answer_index" \in DOMAIN question
    THEN question.correct_answer_index
    ELSE IF "correct_answer" \in DOMAIN question /\ question.correct_answer
         THEN 0 ELSE 1

\* correct_index: correct_answer_index, or for a true/false question
\* 1 if correct_answer else 0.
CorrectIndex(question) ==
    IF "correct_answer_index" \in DOMAIN question
    THEN question.correct_answer_index
    ELSE IF "correct_answer" \in DOMAIN question /\ question.correct_answer
         THEN 1 ELSE 0

\* The answers the grading loop does not skip.
Graded(quiz_data, answers) ==
    SelectSeq(answers,
              LAMBDA a : FindQuestion(quiz_data.questions, a.question_id) # 0)

\* results: one QuestionResult per graded answer.
QuestionResults(quiz_data, answers) ==
    LET graded == Graded(quiz_data, answers) IN
    [i \in DOMAIN graded |->
       LET a == graded[i]
           q == quiz_data.questions[
                    FindQuestion(quiz_data.questions, a.question_id)]
       IN [question_id |-> a.question_id,
           correct |-> (a.selected_index = CorrectIndex(q)),
           selected_index |-> a.selected_index,
           correct_index |-> CorrectIndex(q),
           explanation |-> IF "explanation" \in DOMAIN q
                           THEN q.explanation ELSE ""]]

\* Score dividing whatever the number of answers.
ScoreUnguarded(correct_count, total_questions) ==
    [num |-> correct_count * 100, den |-> total_questions]

\* score = (correct_count / total_questions * 100) if total_questions > 0
\* else 0, kept as the exact fraction num/den.  For up to six answers the
\* float the code computes compares with every integer as this fraction does.
Score(correct_count, total_questions) ==
    IF total_questions > 0
    THEN [num |-> correct_count * 100, den |-> total_questions]
    ELSE [num |-> 0, den |-> 1]

\* score >= n
AtLeast(score, n) == score.num >= n * score.den

\* quiz_data.get("passing_score", 70)
PassingScore(quiz_data) ==
    IF "passing_score" \in DOMAIN quiz_data THEN quiz_data.passing_score ELSE 70

\* GenerateFeedback with the pass mark tested before the thresholds.
GenerateFeedbackPassFirst(score, passed) ==
    IF ~passed THEN "Keep learning!"
    ELSE IF AtLeast(score, 90) THEN "Excellent work!"
    ELSE IF AtLeast(score, 80) THEN "Great job!"
    ELSE "Good work!"

\* _generate_feedback
GenerateFeedback(score, passed) ==
    IF AtLeast(score, 90) THEN "Excellent work!"
    ELSE IF AtLeast(score, 80) THEN "Great job!"
    ELSE IF passed THEN "Good work!"
    ELSE "Keep learning!"

\* ------------------------------------------------- SQLite statements
\* Expired with the comparison off by one.
ExpiredAtDeadline(row, t) == Truthy(row.expires_at) /\ t >= row.expires_at

\* The row tests of _get: "if expires_at and time.time() > expires_at".
Expired(row, t) == Truthy(row.expires_at) /\ t > row.expires_at

\* ExpiresAt without the ttl added.
ExpiresAtNow(t, ttl) == IF Truthy(ttl) THEN t ELSE NULL

\* _set: expires_at = int(time.time() + ttl) if ttl else None
ExpiresAt(t, ttl) == IF Truthy(ttl) THEN t + ttl ELSE NULL

\* set: ttl = ttl or self.default_ttl
EffectiveTtl(ttl) == IF Truthy(ttl) THEN ttl ELSE REDIS_CACHE_TTL

\* SELECT key FROM cache WHERE key LIKE ? / DELETE ... WHERE key LIKE ?
LikeKeys(tbl, sql_pattern) == {k \in DOMAIN tbl : LikeMatch(sql_pattern, k)}

\* ------------------------------------------------------------ chapter text
\* A text is the sequence of its lines, which is what content.split("\n")
\* makes of it and "\n".join makes a text of again; a line is the sequence
\* of its characters.  A chapter id is the sequence of its characters.
MaxLines == 4

MARKER == <<"-", "-", "-">>
TITLE == <<"t", "i", "t", "l", "e">>
LEVEL == <<"l", "e", "v", "e", "l">>
ESTIMATED_MINUTES ==
    <<"e", "s", "t", "i", "m", "a", "t", "e", "d", "_", "m", "i", "n", "u",
      "t", "e", "s">>
BEGINNER == <<"b", "e", "g", "i", "n", "n", "e", "r">>
CHAPTER_ == <<"C", "h", "a", "p", "t", "e", "r", " ">>
DEFAULT_MINUTES == 180

\* The lines the chapter files are made of.
LineMarker == <<"-", "-", "-">>
LineMarkerPadded == <<" ", "-", "-", "-", " ">>
LineTitle ==
    <<"t", "i", "t", "l", "e", ":", " ", "\"", "I", "n", "t", "r", "o", "\"">>
LineTitlePlain == <<"t", "i", "t", "l", "e", ":", " ", "A", ":", "B">>
LineLevel ==
    <<" ", "l", "e", "v", "e", "l", " ", ":", " ", "\"", "e", "a", "s", "y",
      "\"", " ">>
LineMinutes ==
    <<"e", "s", "t", "i", "m", "a", "t", "e", "d", "_", "m", "i", "n", "u",
      "t", "e", "s", ":", " ", "4", "5">>
LineMinutesBad ==
    <<"e", "s", "t", "i", "m", "a", "t", "e", "d", "_", "m", "i", "n", "u",
      "t", "e", "s", ":", " ", "x">>
LineHeading == <<"#", " ", "H">>
LineEmpty == <<>>
LineSet ==
    {LineMarker, LineMarkerPadded, LineTitle, LineTitlePlain, LineLevel,
     LineMinutes, LineMinutesBad, LineHeading, LineEmpty}

\* The texts of up to MaxLines lines; the empty text is one empty line.
Contents == UNION {[1..n -> LineSet] : n \in 1..MaxLines}

\* "\n".join(lines): no line at all joins to the empty text.
Join(lines) == IF lines = <<>> THEN <<LineEmpty>> ELSE lines

RECURSIVE LStrip(_, _)
LStrip(s, chars) ==
    IF s # <<>> /\ Head(s) \in chars THEN LStrip(Tail(s), chars) ELSE s

RECURSIVE RStrip(_, _)
RStrip(s, chars) ==
    IF s # <<>> /\ s[Len(s)] \in chars
    THEN RStrip(SubSeq(s, 1, Len(s) - 1), chars) ELSE s

\* str.strip(): the lines here hold no whitespace but the space.
Strip(s) == RStrip(LStrip(s, {" "}), {" "})

\* strip('"') left out.
KeepQuotes(s) == s

\* str.strip('"'): every leading and trailing double quote goes.
StripQuotes(s) == RStrip(LStrip(s, {"\""}), {"\""})

\* ":" in line
HasColon(line) == \E i \in DOMAIN line : line[i] = ":"

\* line.split(":", 1) splits at the first colon.
Colon(line) ==
    CHOOSE i \in DOMAIN line :
        line[i] = ":" /\ \A j \in 1..(i - 1) : line[j] # ":"
SplitKey(line) == SubSeq(line, 1, Colon(line) - 1)
SplitValue(line) == SubSeq(line, Colon(line) + 1, Len(line))

\* The loop "for i, line in enumerate(lines[1:], 1)" from the line with
\* (1-based) index i on: a marker line ends it with body_start = i + 1 in
\* the code's 0-based count, which is i here; a line with a colon adds
\* metadata[key.strip()] = value.strip().strip('"'); without a closing
\* marker body_start stays 0.
RECURSIVE Frontmatter(_, _, _)
Frontmatter(lines, i, metadata) ==
    IF i > Len(lines) THEN [metadata |-> metadata, body_start |-> 0]
    ELSE IF Strip(lines[i]) = MARKER
    THEN [metadata |-> metadata, body_start |-> i]
    ELSE IF HasColon(lines[i])
    THEN Frontmatter(lines, i + 1,
             Put(metadata, Strip(SplitKey(lines[i])),
                 StripQuotes(Strip(SplitValue(lines[i])))))
    ELSE Frontmatter(lines, i + 1, metadata)

\* metadata and body_start after "if lines and lines[0].strip() == '---'".
ParseFrontmatter(lines) ==
    IF Strip(lines[1]) = MARKER THEN Frontmatter(lines, 2, EmptyMap)
    ELSE [metadata |-> EmptyMap, body_start |-> 0]

\* metadata.get(key, default)
MetadataGet(metadata, key, default) ==
    IF key \in DOMAIN metadata THEN metadata[key] ELSE default

DigitChars == <<"0", "1", "2", "3", "4", "5", "6", "7", "8", "9">>
DigitValue(c) == CHOOSE n \in 0..9 : DigitChars[n + 1] = c

\* str.isdigit(), and the texts int() takes: here the non-empty texts of
\* ASCII digits (the ids and values used carry no sign, blank or underscore).
IsDigit(s) ==
    s # <<>> /\ \A i \in DOMAIN s : \E n \in 1..10 : DigitChars[n] = s[i]

\* int(s) for such a text.
RECURSIVE ToInt(_)
ToInt(s) ==
    IF s = <<>> THEN 0
    ELSE 10 * ToInt(SubSeq(s, 1, Len(s) - 1)) + DigitValue(s[Len(s)])

\* str(n) for n >= 0.
RECURSIVE Decimal(_)
Decimal(n) ==
    IF n < 10 THEN <<DigitChars[n + 1]>>
    ELSE Decimal(n \div 10) \o <<DigitChars[(n % 10) + 1]>>

\* f"{n:02d}" for n >= 0.
Format02d(n) == IF n < 10 THEN <<"0">> \o Decimal(n) ELSE Decimal(n)

\* norm_id without the padding.
NormIdAsGiven(chapter_id) == chapter_id

\* chapter_id.zfill(2) if chapter_id.isdigit() else chapter_id
NormId(chapter_id) ==
    IF IsDigit(chapter_id) /\ Len(chapter_id) < 2
    THEN <<"0">> \o chapter_id ELSE chapter_id

\* None where a chapter id is expected.
NoChapter == <<>>

\* next_chapter with the last chapter having a successor.
NextChapterThrough10(chapter_id) ==
    IF ~IsDigit(chapter_id) THEN NoChapter
    ELSE IF ToInt(chapter_id) <= 10 THEN Format02d(ToInt(chapter_id) + 1)
    ELSE NoChapter

\* next_chapter = f"{ch_num + 1:02d}" if ch_num < 10 else None; None when
\* int(chapter_id) raises ValueError.
NextChapter(chapter_id) ==
    IF ~IsDigit(chapter_id) THEN NoChapter
    ELSE IF ToInt(chapter_id) < 10 THEN Format02d(ToInt(chapter_id) + 1)
    ELSE NoChapter

\* prev_chapter = f"{ch_num - 1:02d}" if ch_num > 1 else None
PrevChapter(chapter_id) ==
    IF ~IsDigit(chapter_id) THEN NoChapter
    ELSE IF ToInt(chapter_id) > 1 THEN Format02d(ToInt(chapter_id) - 1)
    ELSE NoChapter

\* is_free with the third chapter paid.
IsFreeBelow3(chapter_id) ==
    IF IsDigit(chapter_id) THEN ToInt(chapter_id) < 3 ELSE FALSE

\* is_free = int(chapter_id) <= 3 if chapter_id.isdigit() else False
IsFree(chapter_id) ==
    IF IsDigit(chapter_id) THEN ToInt(chapter_id) <= 3 ELSE FALSE

\* int(metadata.get("estimated_minutes", 180)) raises ValueError.
ParseRaises(content) ==
    LET metadata == ParseFrontmatter(content).metadata IN
    /\ ESTIMATED_MINUTES \in DOMAIN metadata
    /\ ~IsDigit(metadata[ESTIMATED_MINUTES])

\* The dict _parse_chapter_markdown returns when it raises nothing.
ParseChapterMarkdown(content, chapter_id) ==
    LET lines == content
        front == ParseFrontmatter(lines)
        metadata == front.metadata
        content_body ==
            Join(SubSeq(lines, front.body_start + 1, Len(lines)))
    IN
    [chapter_id |-> chapter_id,
     title |-> MetadataGet(metadata, TITLE, CHAPTER_ \o chapter_id),
     level |-> MetadataGet(metadata, LEVEL, BEGINNER),
     content |-> content_body,
     next_chapter |-> NextChapter(chapter_id),
     previous_chapter |-> PrevChapter(chapter_id),
     estimated_minutes |->
         IF ESTIMATED_MINUTES \in DOMAIN metadata
         THEN ToInt(metadata[ESTIMATED_MINUTES]) ELSE DEFAULT_MINUTES,
     has_quiz |-> TRUE,
     is_free |-> IsFree(chapter_id)]

\* The ten chapters of the course, "01" to "10".
ChapterIds == {Format02d(i) : i \in 1..10}

\* Ids outside the course: no chapter 00 or 11, and a name.
OtherIds == {<<"0", "0">>, <<"1", "1">>, <<"i", "n", "t", "r", "o">>}

\* ---------------------------------------------------------- chapter files
Ch1 == <<"1">>
Ch04 == <<"0", "4">>

\* cache key f"chapter:{chapter_id}"
ChapterCacheKey(chapter_id) ==
    <<"c", "h", "a", "p", "t", "e", "r", ":">> \o chapter_id

\* key = f"{self.COURSE_PREFIX}/chapters/chapter-{norm_id}.md"
ChapterObjectKey(norm_id) ==
    <<COURSE_PREFIX, "/chapters/chapter-", norm_id, ".md">>

\* The chapter files by name: one with frontmatter, one without, one whose
\* estimated_minutes is not a number.
MarkdownLines(text) ==
    CASE text = "md_intro" ->
             <<LineMarker, LineTitle, LineMinutes, LineMarker, LineHeading>>
      [] text = "md_plain" -> <<LineHeading>>
      [] text = "md_bad" -> <<LineMarker, LineMinutesBad, LineMarker>>

\* The JSON texts of chapters by name, each with the dict json.loads makes of
\* it: what model_dump_json writes for the chapter parsed from a file under
\* an id.  "ch1_intro" is an entry of the time before ids were normalized,
\* parsed under the id "1".
ChapterJsonDocs ==
    ("ch01_intro" :> ParseChapterMarkdown(MarkdownLines("md_intro"), Ch01))
    @@ ("ch01_plain" :> ParseChapterMarkdown(MarkdownLines("md_plain"), Ch01))
    @@ ("ch1_intro" :> ParseChapterMarkdown(MarkdownLines("md_intro"), Ch1))
    @@ ("ch04_intro" :> ParseChapterMarkdown(MarkdownLines("md_intro"), Ch04))

\* ChapterContent(**json.loads(cached)) raises on any other text: it is not
\* JSON, or the JSON of something that is no chapter.
ChapterJsonValid(text) == text \in DOMAIN ChapterJsonDocs

\* json.loads with the title lost.
ChapterJsonLoadsUntitled(text) == [ChapterJsonDocs[text] EXCEPT !.title = <<>>]

\* json.loads(cached)
ChapterJsonLoads(text) == ChapterJsonDocs[text]

\* ChapterContent(**chapter_data): every field of the model is given with
\* its type, so the model holds the dict's values.
ChapterContent(chapter_data) == chapter_data

\* chapter.model_dump_json()
ModelDumpJson(chapter) ==
    CHOOSE text \in DOMAIN ChapterJsonDocs : ChapterJsonDocs[text] = chapter

VARIABLES
    redis_tried,   \* CacheService._redis_tried
    redis,         \* CacheService.redis: None or "client"
    rstore,        \* the fast store's contents, key -> value
    table,         \* the SQLite cache table, key -> [value, expires_at]
    now,           \* time.time()
    tasks,         \* per request task: the cache call it is running
    last,          \* what the most recently finished cache call returned
    lastSet,       \* history: per key, the SQLite set that wrote its row last
    objects,       \* the local content directory, key -> text of the file
    bucket         \* the remote bucket of the object store, key -> text

vars ==
    <<redis_tried, redis, rstore, table, now, tasks, last, lastSet, objects,
      bucket>>

\* No chapter data: the result of a call that returned None or raised.
NoData ==
    [chapter_id |-> NoChapter, title |-> <<>>, level |-> <<>>,
     content |-> <<>>, next_chapter |-> NoChapter,
     previous_chapter |-> NoChapter, estimated_minutes |-> 0,
     has_quiz |-> FALSE, is_free |-> FALSE]

IdleTask ==
    [pc |-> "idle", op |-> "none", key |-> <<>>, value |-> None, ttl |-> NULL,
     ttl_arg |-> NULL, pattern |-> <<>>, keys |-> {}, removed |-> 0,
     failed |-> FALSE, caller |-> "none", chapter |-> <<>>,
     data |-> NoData]

\* What the most recently finished cache call returned: ret for get, ok for
\* set and delete, count for clear_pattern; via is the store that produced
\* it, removed the number of entries the call took out of the stores, failed
\* whether one of its fast-store calls did not return, purged whether a get
\* deleted an expired row.  For a quiz request: the chapter and answers asked
\* with, the exception raised (error), the Quiz returned by get_quiz (via says
\* whether quiz_data came from the cache or the store), and the fields of the
\* QuizResult returned by submit_quiz.  For a chapter: the text parsed and the
\* chapter data that came out; for get_chapter the id asked with, ok when a
\* chapter came back, its data, via the cache or the store, key the cache key
\* read or written last, and before, the same of the request that finished
\* just before this one.  For a call of the object store: key or prefix, what
\* the remote call did (r2), whether the local backend was consulted (local)
\* and failed (failed), and what came back: ret for get, ok for put and
\* delete, listed for list, error when the call raised, content what put
\* was given to write.  object_key is the
\* key a quiz request passed to get_object, <<>> when it read no object.
\* For check_chapter_access:
\* the chapter id asked with, the row the users table gave for user_id
\* (user), ok for has_access, and the reason.
NoQuiz == [questions |-> <<>>]

\* db.query(User).filter(User.id == user_id).first() found no row.
NoUser == [found |-> FALSE, is_premium |-> FALSE]

NoBefore ==
    [op |-> "none", chapter |-> <<>>, ok |-> FALSE, via |-> "none",
     key |-> <<>>, data |-> NoData]

NoResult ==
    [op |-> "none", key |-> <<>>, ret |-> None, ok |-> FALSE, count |-> 0,
     removed |-> 0, via |-> "none", failed |-> FALSE, purged |-> FALSE,
     chapter |-> <<>>, answers |-> <<>>, error |-> "none", quiz |-> NoQuiz,
     quiz_id |-> "", score |-> [num |-> 0, den |-> 1], passed |-> FALSE,
     total_questions |-> 0, correct_answers |-> 0, results |-> <<>>,
     feedback |-> "", text |-> <<>>, data |-> NoData, before |-> NoBefore,
     r2 |-> "none", local |-> FALSE, listed |-> <<>>, object_key |-> <<>>,
     content |-> None, user |-> NoUser, reason |-> ""]

Result(task, via) ==
    [NoResult EXCEPT !.op = task.op, !.key = task.key, !.via = via,
                     !.removed = task.removed, !.failed = task.failed]

CanCall(t) == tasks[t].pc = "idle"

\* The call of task t goes on at pc with the task record rec.
Goto(t, rec, pc) ==
    /\ tasks' = [tasks EXCEPT ![t] = [rec EXCEPT !.pc = pc]]
    /\ last' = last

\* The request of task t is over with result res.
Finish(t, res) ==
    /\ tasks' = [tasks EXCEPT ![t] = IdleTask]
    /\ last' = res

\* StorageService.get_object with no R2 client configured: the text of the
\* local file, None when there is none.
GetObject(key) == IF key \in DOMAIN objects THEN objects[key] ELSE None

\* The result res of a request that called get_object(key).
ReadFrom(res, key) == [res EXCEPT !.object_key = key]

\* get_quiz raises exc.
QuizRaise(me, exc) ==
    [NoResult EXCEPT !.op = "get_quiz", !.chapter = me.chapter,
                     !.error = exc, !.failed = me.failed]

\* get_quiz once quiz_data is there as text: json.loads, the public version,
\* Quiz(**public_quiz).
QuizReturn(me, text, via) ==
    IF ~JsonValid(text) THEN QuizRaise(me, "JSONDecodeError")
    ELSE IF ~QuizValid(StripAnswers(JsonLoads(text)))
    THEN QuizRaise(me, "ValidationError")
    ELSE [NoResult EXCEPT !.op = "get_quiz", !.chapter = me.chapter,
                          !.via = via, !.failed = me.failed,
                          !.quiz = PublicQuiz(JsonLoads(text))]

\* get_quiz goes on when its cache call returns res.  After cache.get: with a
\* cached text it returns the public quiz; else it reads the quiz file,
\* raises ValueError when there is none, parses it and enters
\* cache.set(cache_key, json.dumps(quiz_data), ttl=3600) up to its first
\* await.  After cache.set, whatever it returned: the public quiz.
GetQuizResume(t, res) ==
    LET me == tasks[t]
        key == QuizObjectKey(me.chapter)
        content == GetObject(key)
    IN
    IF me.op = "set"
    THEN Finish(t, ReadFrom(QuizReturn(me, me.value, "store"), key))
    ELSE IF res.ret # None /\ res.ret # ""
    THEN Finish(t, QuizReturn(me, res.ret, "cache"))
    ELSE IF content = None \/ content = ""
    THEN Finish(t, ReadFrom(QuizRaise(me, "ValueError"), key))
    ELSE IF ~JsonValid(content)
    THEN Finish(t, ReadFrom(QuizRaise(me, "JSONDecodeError"), key))
    ELSE Goto(t, [me EXCEPT !.op = "set",
                            !.value = JsonDumps(JsonLoads(content)),
                            !.ttl_arg = 3600, !.ttl = EffectiveTtl(3600)],
              IF redis # None THEN "redis_set" ELSE "sql_set")

\* What get_chapter leaves for the request after it.
Before ==
    [op |-> last.op, chapter |-> last.chapter, ok |-> last.ok,
     via |-> last.via, key |-> last.key, data |-> last.data]

\* get_chapter returns chapter.
ChapterReturn(me, chapter, via) ==
    [NoResult EXCEPT !.op = "get_chapter", !.chapter = me.chapter,
                     !.key = me.key, !.via = via, !.ok = TRUE,
                     !.failed = me.failed, !.data = chapter,
                     !.before = Before]

\* get_chapter returns None.
ChapterNone(me) ==
    [NoResult EXCEPT !.op = "get_chapter", !.chapter = me.chapter,
                     !.key = me.key, !.failed = me.failed,
                     !.before = Before]

\* get_chapter after a cache key gave nothing: the loop goes to the next
\* key; after the last key it reads the chapter file of norm_id, returns
\* None when there is none (or any exception is raised), parses it and
\* enters cache.set(f"chapter:{norm_id}", chapter.model_dump_json(),
\* ttl=3600) up to its first await.
GetChapterMiss(t) ==
    LET me == tasks[t]
        norm_id == NormId(me.chapter)
        content == GetObject(ChapterObjectKey(norm_id))
        chapter ==
            ChapterContent(
                ParseChapterMarkdown(MarkdownLines(content), norm_id))
    IN
    IF me.key # ChapterCacheKey(norm_id)
    THEN Goto(t, [me EXCEPT !.key = ChapterCacheKey(norm_id)],
              IF redis # None THEN "redis_get" ELSE "sql_get")
    ELSE IF content = None \/ content = "" THEN Finish(t, ChapterNone(me))
    ELSE IF ParseRaises(MarkdownLines(content))
    THEN Finish(t, ChapterNone(me))
    ELSE Goto(t, [me EXCEPT !.op = "set",
                            !.key = ChapterCacheKey(norm_id),
                            !.value = ModelDumpJson(chapter),
                            !.data = chapter,
                            !.ttl_arg = 3600, !.ttl = EffectiveTtl(3600)],
              IF redis # None THEN "redis_set" ELSE "sql_set")

\* A malformed cache entry ends the request with None.
OnMalformedNone(t) == Finish(t, ChapterNone(tasks[t]))

\* except Exception around ChapterContent(**json.loads(cached)): the malformed
\* entry is logged and the loop goes on as after a miss.
OnMalformed(t) == GetChapterMiss(t)

\* get_chapter goes on when its cache call returns res.  After cache.get of
\* one of cache_keys: a cached text that makes a ChapterContent is returned,
\* a malformed or missing one is passed over.  After cache.set, whatever it
\* returned: the chapter.
GetChapterResume(t, res) ==
    LET me == tasks[t] IN
    IF me.op = "set" THEN Finish(t, ChapterReturn(me, me.data, "store"))
    ELSE IF res.ret # None /\ res.ret # "" /\ ChapterJsonValid(res.ret)
    THEN Finish(t, ChapterReturn(me,
                       ChapterContent(ChapterJsonLoads(res.ret)), "cache"))
    ELSE IF res.ret # None /\ res.ret # "" THEN OnMalformed(t)
    ELSE GetChapterMiss(t)

\* cache_key = "course:metadata"
CourseCacheKey ==
    <<"c", "o", "u", "r", "s", "e", ":",
      "m", "e", "t", "a", "d", "a", "t", "a">>

\* key = f"{self.COURSE_PREFIX}/metadata.json"
MetadataObjectKey == <<COURSE_PREFIX, "/metadata.json">>

\* CourseMetadata(**json.loads(text)) succeeds for the metadata file only.
CourseJsonValid(text) == text = "metadata"

\* What it raises otherwise: the JSON of a quiz lacks the required fields,
\* any other text is not JSON.
CourseJsonError(text) ==
    IF JsonValid(text) THEN "ValidationError" ELSE "JSONDecodeError"

\* get_course_metadata returns the metadata made of text.
CourseReturn(me, text, via) ==
    [NoResult EXCEPT !.op = "get_course_metadata", !.key = me.key,
                     !.ok = TRUE, !.ret = text, !.via = via,
                     !.failed = me.failed]

\* get_course_metadata returns None.
CourseNone(me) ==
    [NoResult EXCEPT !.op = "get_course_metadata", !.key = me.key,
                     !.failed = me.failed]

\* get_course_metadata raises exc.
CourseRaise(me, exc) ==
    [NoResult EXCEPT !.op = "get_course_metadata", !.key = me.key,
                     !.error = exc, !.failed = me.failed]

\* get_course_metadata goes on when its cache call returns res.  After
\* cache.get: a cached text is parsed outside any try block, so it is
\* returned or its exception raised; without one the metadata file is read
\* inside "try ... except Exception: return None", parsed, and
\* cache.set(cache_key, content, ttl=3600) entered up to its first await.
\* After cache.set, whatever it returned: the metadata.
GetCourseMetadataResume(t, res) ==
    LET me == tasks[t]
        content == GetObject(MetadataObjectKey)
    IN
    IF me.op = "set" THEN Finish(t, CourseReturn(me, me.value, "store"))
    ELSE IF res.ret # None /\ res.ret # ""
    THEN IF CourseJsonValid(res.ret)
         THEN Finish(t, CourseReturn(me, res.ret, "cache"))
         ELSE Finish(t, CourseRaise(me, CourseJsonError(res.ret)))
    ELSE IF content = None \/ content = "" THEN Finish(t, CourseNone(me))
    ELSE IF ~CourseJsonValid(content) THEN Finish(t, CourseNone(me))
    ELSE Goto(t, [me EXCEPT !.op = "set", !.value = content,
                            !.ttl_arg = 3600, !.ttl = EffectiveTtl(3600)],
              IF redis # None THEN "redis_set" ELSE "sql_set")

\* The cache call of task t returns res to its caller: the request handler,
\* get_quiz, get_chapter or get_course_metadata.
Return(t, res) ==
    IF tasks[t].caller = "get_quiz" THEN GetQuizResume(t, res)
    ELSE IF tasks[t].caller = "get_chapter" THEN GetChapterResume(t, res)
    ELSE IF tasks[t].caller = "get_course_metadata"
    THEN GetCourseMetadataResume(t, res)
    ELSE Finish(t, res)

\* InitRedisIfNeeded without the _redis_tried guard.
InitRedisAlways(tried, client, from_url_ok) ==
    IF from_url_ok THEN "client" ELSE None

\* _init_redis_if_needed: the client after the call.  redis.from_url either
\* returns a client or raises, and is tried once per process.
InitRedisIfNeeded(tried, client, from_url_ok) ==
    IF tried THEN client
    ELSE IF from_url_ok THEN "client" ELSE None

\* The synchronous head of get/set/delete/clear_pattern: lazy client
\* construction, then either the fast-store call is issued (its await is the
\* suspension point) or the SQLite closure is handed to the executor.
Enter(t, call, from_url_ok, redis_pc, sql_pc) ==
    LET c == InitRedisIfNeeded(redis_tried, redis, from_url_ok) IN
    /\ CanCall(t)
    /\ redis_tried' = TRUE
    /\ redis' = c
    /\ tasks' = [tasks EXCEPT ![t] =
                   [call EXCEPT !.pc = IF c # None THEN redis_pc ELSE sql_pc]]
    /\ UNCHANGED <<bucket, objects, rstore, table, now, last, lastSet>>

\* The except clauses around a fast-store call of get, set, delete and of
\* clear_pattern's KEYS: any failure sets self.redis = None.
ClientAfter(o, client) == IF o = "ok" THEN client ELSE None

\* The except clauses around clear_pattern's inner delete: "except Exception"
\* swallows a timeout or an error of the client and leaves self.redis alone;
\* CancelledError is a BaseException and reaches the outer handler.
ClientAfterDelKeys(o, client) == IF o = "cancelled" THEN None ELSE client

\* ------------------------------------------------------------ CacheService.get
CallGet(t, k, from_url_ok) ==
    Enter(t, [IdleTask EXCEPT !.op = "get", !.key = k], from_url_ok,
          "redis_get", "sql_get")

\* await asyncio.wait_for(self.redis.get(key), ...) ends.
RedisGetDone(t, o) ==
    LET me == tasks[t]
        v == IF me.key \in DOMAIN rstore THEN rstore[me.key] ELSE None
    IN
    /\ me.pc = "redis_get"
    /\ redis' = ClientAfter(o, redis)
    /\ IF o # "ok" THEN Goto(t, [me EXCEPT !.failed = TRUE], "sql_get")
       ELSE IF v # None THEN Return(t, [Result(me, "redis") EXCEPT !.ret = v])
       ELSE Goto(t, me, "sql_get")
    /\ UNCHANGED <<bucket, objects, redis_tried, rstore, table, now, lastSet>>

\* _sqlite_get._get: the SELECT, fetchone and the expiry test.
SqliteGetSelect(t) ==
    LET me == tasks[t] IN
    /\ me.pc = "sql_get"
    /\ IF me.key \notin DOMAIN table
       THEN Return(t, [Result(me, "sqlite") EXCEPT !.ret = None])
       ELSE IF Expired(table[me.key], now)
       THEN Goto(t, me, "sql_get_purge")
       ELSE Return(t, [Result(me, "sqlite") EXCEPT !.ret = table[me.key].value])
    /\ UNCHANGED <<bucket, objects, redis_tried, redis, rstore, table, now, lastSet>>

\* _sqlite_get._get: the DELETE of the expired row, commit, return None.
SqliteGetPurge(t) ==
    LET me == tasks[t] IN
    /\ me.pc = "sql_get_purge"
    /\ table' = Remove(table, {me.key})
    /\ lastSet' = Remove(lastSet, {me.key})
    /\ Return(t, [Result(me, "sqlite") EXCEPT !.ret = None, !.purged = TRUE])
    /\ UNCHANGED <<bucket, objects, redis_tried, redis, rstore, now>>

\* ------------------------------------------------------------ CacheService.set
CallSet(t, k, v, ttl, from_url_ok) ==
    Enter(t, [IdleTask EXCEPT !.op = "set", !.key = k, !.value = v,
                              !.ttl_arg = ttl, !.ttl = EffectiveTtl(ttl)],
          from_url_ok, "redis_set", "sql_set")

\* await asyncio.wait_for(self.redis.setex(key, ttl, value), ...) ends.  A call
\* that did not return may still have been carried out by the server.
RedisSetDone(t, o, applied) ==
    LET me == tasks[t] IN
    /\ me.pc = "redis_set"
    /\ o = "ok" => applied
    /\ redis' = ClientAfter(o, redis)
    /\ rstore' = IF applied THEN Put(rstore, me.key, me.value) ELSE rstore
    /\ IF o = "ok" THEN Return(t, [Result(me, "redis") EXCEPT !.ok = TRUE])
       ELSE Goto(t, [me EXCEPT !.failed = TRUE], "sql_set")
    /\ UNCHANGED <<bucket, objects, redis_tried, table, now, lastSet>>

\* _sqlite_set._set: REPLACE INTO cache, commit, return True.
SqliteSet(t) ==
    LET me == tasks[t] IN
    /\ me.pc = "sql_set"
    /\ table' = Put(table, me.key,
                    [value |-> me.value, expires_at |-> ExpiresAt(now, me.ttl)])
    /\ lastSet' = Put(lastSet, me.key,
                      [value |-> me.value, ttl |-> me.ttl_arg, at |-> now])
    /\ Return(t, [Result(me, "sqlite") EXCEPT !.ok = TRUE])
    /\ UNCHANGED <<bucket, objects, redis_tried, redis, rstore, now>>

\* --------------------------------------------------------- CacheService.delete
CallDelete(t, k, from_url_ok) ==
    Enter(t, [IdleTask EXCEPT !.op = "delete", !.key = k], from_url_ok,
          "redis_delete", "sql_delete")

\* await asyncio.wait_for(self.redis.delete(key), ...) ends.
RedisDeleteDone(t, o, applied) ==
    LET me == tasks[t] IN
    /\ me.pc = "redis_delete"
    /\ o = "ok" => applied
    /\ redis' = ClientAfter(o, redis)
    /\ rstore' = IF applied THEN Remove(rstore, {me.key}) ELSE rstore
    /\ IF o = "ok" THEN Return(t, [Result(me, "redis") EXCEPT !.ok = TRUE])
       ELSE Goto(t, [me EXCEPT !.failed = TRUE], "sql_delete")
    /\ UNCHANGED <<bucket, objects, redis_tried, table, now, lastSet>>

\* _sqlite_delete._delete: DELETE, commit, return cur.rowcount > 0.
SqliteDelete(t) ==
    LET me == tasks[t] IN
    /\ me.pc = "sql_delete"
    /\ table' = Remove(table, {me.key})
    /\ lastSet' = Remove(lastSet, {me.key})
    /\ Return(t, [Result(me, "sqlite") EXCEPT !.ok = (me.key \in DOMAIN table)])
    /\ UNCHANGED <<bucket, objects, redis_tried, redis, rstore, now>>

\* -------------------------------------------------- CacheService.clear_pattern
CallClear(t, p, from_url_ok) ==
    Enter(t, [IdleTask EXCEPT !.op = "clear", !.pattern = p], from_url_ok,
          "redis_keys", "sql_clear")

\* What clear_pattern returns on the fast-store path once KEYS has returned
\* `keys` and the inner delete is over, however it ended: deleted = len(keys).
RedisClearCount(keys, n_deleted) == Cardinality(keys)

\* await asyncio.wait_for(self.redis.keys(pattern), ...) ends.  With keys
\* found the inner delete is issued next; when another task has set
\* self.redis = None meanwhile, self.redis.delete raises AttributeError, which
\* the inner "except Exception" swallows.
RedisKeysDone(t, o) ==
    LET me == tasks[t]
        keys == {k \in DOMAIN rstore : GlobMatch(me.pattern, k)}
    IN
    /\ me.pc = "redis_keys"
    /\ redis' = ClientAfter(o, redis)
    /\ IF o # "ok" THEN Goto(t, [me EXCEPT !.failed = TRUE], "sql_clear")
       ELSE IF keys = {} THEN Return(t, [Result(me, "redis") EXCEPT !.count = 0])
       ELSE IF redis = None
       THEN Return(t, [Result(me, "redis") EXCEPT
                          !.count = RedisClearCount(keys, 0)])
       ELSE Goto(t, [me EXCEPT !.keys = keys], "redis_del_keys")
    /\ UNCHANGED <<bucket, objects, redis_tried, rstore, table, now, lastSet>>

\* await asyncio.wait_for(self.redis.delete(*keys), ...) ends.
RedisDelKeysDone(t, o, applied) ==
    LET me == tasks[t]
        n == IF applied THEN Cardinality(me.keys \cap DOMAIN rstore) ELSE 0
    IN
    /\ me.pc = "redis_del_keys"
    /\ o = "ok" => applied
    /\ redis' = ClientAfterDelKeys(o, redis)
    /\ rstore' = IF applied THEN Remove(rstore, me.keys) ELSE rstore
    /\ IF o = "cancelled"
       THEN Goto(t, [me EXCEPT !.keys = {}, !.removed = n, !.failed = TRUE],
                 "sql_clear")
       ELSE Return(t, [Result(me, "redis") EXCEPT
                          !.count = RedisClearCount(me.keys, n),
                          !.removed = n, !.failed = (o # "ok")])
    /\ UNCHANGED <<bucket, objects, redis_tried, table, now, lastSet>>

\* _sqlite_clear_pattern._clear: the SELECT of the matching keys.
SqliteClearSelect(t) ==
    LET me == tasks[t]
        keys == LikeKeys(table, SqlPattern(me.pattern))
    IN
    /\ me.pc = "sql_clear"
    /\ IF keys = {} THEN Return(t, [Result(me, "sqlite") EXCEPT !.count = 0])
       ELSE Goto(t, me, "sql_clear_delete")
    /\ UNCHANGED <<bucket, objects, redis_tried, redis, rstore, table, now, lastSet>>

\* _sqlite_clear_pattern._clear: the DELETE, deleted = cur.rowcount, commit.
SqliteClearDelete(t) ==
    LET me == tasks[t]
        gone == LikeKeys(table, SqlPattern(me.pattern))
    IN
    /\ me.pc = "sql_clear_delete"
    /\ table' = Remove(table, gone)
    /\ lastSet' = Remove(lastSet, gone)
    /\ Return(t, [Result(me, "sqlite") EXCEPT
                     !.count = Cardinality(gone),
                     !.removed = me.removed + Cardinality(gone)])
    /\ UNCHANGED <<bucket, objects, redis_tried, redis, rstore, now>>

\* ---------------------------------------------------------------- QuizService
\* get_quiz up to the first await of cache_service.get(cache_key).
CallGetQuiz(t, chapter_id, from_url_ok) ==
    Enter(t, [IdleTask EXCEPT !.op = "get", !.key = QuizCacheKey(chapter_id),
                              !.caller = "get_quiz", !.chapter = chapter_id],
          from_url_ok, "redis_get", "sql_get")

\* The QuizResult of submit_quiz, or the exception it raises.
SubmitResult(chapter_id, answers) ==
    LET key == QuizObjectKey(chapter_id)
        content == GetObject(key)
        asked == [NoResult EXCEPT !.op = "submit_quiz",
                                  !.chapter = chapter_id, !.answers = answers,
                                  !.object_key = key]
    IN
    IF content = None \/ content = "" THEN [asked EXCEPT !.error = "ValueError"]
    ELSE IF ~JsonValid(content)
    THEN [asked EXCEPT !.error = "JSONDecodeError"]
    ELSE
      LET quiz_data == JsonLoads(content)
          results == QuestionResults(quiz_data, answers)
          correct_count ==
              Cardinality({i \in DOMAIN results : results[i].correct})
          total_questions == Len(answers)
          score == Score(correct_count, total_questions)
          passed == AtLeast(score, PassingScore(quiz_data))
      IN
      IF score.den = 0 THEN [asked EXCEPT !.error = "ZeroDivisionError"]
      ELSE [asked EXCEPT !.quiz_id = quiz_data.quiz_id, !.score = score,
                         !.passed = passed,
                         !.total_questions = total_questions,
                         !.correct_answers = correct_count,
                         !.results = results,
                         !.feedback = GenerateFeedback(score, passed)]

\* submit_quiz that leaves the text it read in the cache table.
SubmitQuizCaching(chapter_id, answers) ==
    LET content == GetObject(QuizObjectKey(chapter_id)) IN
    /\ last.op = "none"
    /\ last' = SubmitResult(chapter_id, answers)
    /\ table' = IF content \in {None, ""} THEN table
                ELSE Put(table, QuizCacheKey(chapter_id),
                         [value |-> content, expires_at |-> now + 3600])
    /\ UNCHANGED <<bucket, objects, redis_tried, redis, rstore, now, tasks, lastSet>>

\* submit_quiz: it has no await that suspends, so it runs in one step.  A
\* behaviour grades one submission.
SubmitQuiz(chapter_id, answers) ==
    /\ last.op = "none"
    /\ last' = SubmitResult(chapter_id, answers)
    /\ UNCHANGED <<bucket, objects, redis_tried, redis, rstore, table, now, tasks,
                   lastSet>>

\* ------------------------------------------------------------ ContentService
\* get_course_metadata up to the first await of cache_service.get(cache_key).
CallGetCourseMetadata(t, from_url_ok) ==
    Enter(t, [IdleTask EXCEPT !.op = "get", !.key = CourseCacheKey,
                              !.caller = "get_course_metadata"],
          from_url_ok, "redis_get", "sql_get")

\* get_chapter up to the first await of cache_service.get(cache_key), with
\* the first of cache_keys: f"chapter:{orig_id}".
CallGetChapter(t, chapter_id, from_url_ok) ==
    Enter(t, [IdleTask EXCEPT !.op = "get",
                              !.key = ChapterCacheKey(chapter_id),
                              !.caller = "get_chapter",
                              !.chapter = chapter_id],
          from_url_ok, "redis_get", "sql_get")

\* _parse_chapter_markdown(content, chapter_id): a pure function, one step.
ParseChapter(content, chapter_id) ==
    /\ last' =
         IF ParseRaises(content)
         THEN [NoResult EXCEPT !.op = "parse", !.chapter = chapter_id,
                               !.text = content, !.error = "ValueError"]
         ELSE [NoResult EXCEPT !.op = "parse", !.chapter = chapter_id,
                               !.text = content,
                               !.data =
                                   ParseChapterMarkdown(content, chapter_id)]
    /\ UNCHANGED <<bucket, objects, redis_tried, redis, rstore, table, now, tasks,
                   lastSet>>


\* ----------------------------------------------------------- StorageService
\* The calls have no await that suspends (the client is synchronous): each
\* runs in one step.  The remote store is outside the process: a call to it
\* succeeds with some answer, reports the key missing (ClientError with code
\* NoSuchKey), fails with another ClientError, or raises something else.
R2Outcomes == {"ok", "NoSuchKey", "ClientError", "Exception"}

\* get_object with every remote error sent to the local backend.
GetFallsThroughAlways(r2) == r2 # "ok"

\* get_object: "except ClientError" returns None for NoSuchKey and falls
\* through otherwise, "except Exception" falls through.
GetFallsThrough(r2) == r2 \in {"ClientError", "Exception"}

\* put_object, list_objects, delete_object: "except Exception" falls through.
FallsThrough(r2) == r2 # "ok"

StorageCall(op, key, r2) ==
    [NoResult EXCEPT !.op = op, !.key = key, !.r2 = r2]

\* What the remote call of get_object did agrees with the bucket: it gives
\* the object it holds, or reports the key missing when it holds none; it
\* may fail in any state.
RemoteGetCan(key, r2) ==
    /\ r2 = "ok" => key \in DOMAIN bucket
    /\ r2 = "NoSuchKey" => key \notin DOMAIN bucket

\* get_object(key) with a client: local_ok says whether the local file
\* system answers.
GetObjectCall(key, r2, local_ok) ==
    LET call == StorageCall("get_object", key, r2) IN
    /\ RemoteGetCan(key, r2)
    /\ last' =
         IF r2 = "ok" THEN [call EXCEPT !.ret = bucket[key]]
         ELSE IF ~GetFallsThrough(r2) THEN call
         ELSE [call EXCEPT !.local = TRUE, !.failed = ~local_ok,
                           !.ret = IF local_ok /\ key \in DOMAIN objects
                                   THEN objects[key] ELSE None]
    /\ UNCHANGED <<bucket, objects, redis_tried, redis, rstore, table, now,
                   tasks, lastSet>>

\* put_object(key, content) with a client.  A remote call that succeeded
\* was applied; one that failed may have been applied all the same (the
\* answer was lost).
PutObjectCall(key, content, r2, applied, local_ok) ==
    LET call ==
            [StorageCall("put_object", key, r2) EXCEPT !.content = content]
    IN
    /\ r2 = "ok" => applied
    /\ last' =
         IF ~FallsThrough(r2) THEN [call EXCEPT !.ok = TRUE]
         ELSE [call EXCEPT !.local = TRUE, !.failed = ~local_ok,
                           !.ok = local_ok]
    /\ bucket' = IF applied THEN Put(bucket, key, content) ELSE bucket
    /\ objects' =
         IF FallsThrough(r2) /\ local_ok THEN Put(objects, key, content)
         ELSE objects
    /\ UNCHANGED <<redis_tried, redis, rstore, table, now, tasks, lastSet>>

\* delete_object(key) with a client.
DeleteObjectCall(key, r2, applied, local_ok) ==
    LET call == StorageCall("delete_object", key, r2) IN
    /\ r2 = "ok" => applied
    /\ last' =
         IF ~FallsThrough(r2) THEN [call EXCEPT !.ok = TRUE]
         ELSE [call EXCEPT !.local = TRUE, !.failed = ~local_ok,
                           !.ok = local_ok /\ key \in DOMAIN objects]
    /\ bucket' = IF applied THEN Remove(bucket, {key}) ELSE bucket
    /\ objects' =
         IF FallsThrough(r2) /\ local_ok THEN Remove(objects, {key})
         ELSE objects
    /\ UNCHANGED <<redis_tried, redis, rstore, table, now, tasks, lastSet>>

\* Prefixes: the course, its quizzes, and one whose remainder after the
\* first "/" is an absolute path, so that content_dir / rest is that path.
PrefixCourse == <<COURSE_PREFIX, "/">>
PrefixQuizzes == <<COURSE_PREFIX, "/quizzes/">>
PrefixOutside == <<COURSE_PREFIX, "//tmp">>
Prefixes == {PrefixCourse, PrefixQuizzes, PrefixOutside}

\* The local file of key lies under search_dir = content_dir / rest.
InSearchDir(key, prefix) ==
    \/ prefix = PrefixCourse
    \/ prefix = PrefixQuizzes /\ key[2] = "/quizzes/quiz-"

\* sorted(search_dir.rglob("*")): chapters/ sorts before quizzes/, then by
\* file name.
PathRank(key) ==
    (IF key[2] = "/chapters/chapter-" THEN 0 ELSE 100) + ToInt(key[3])

RECURSIVE SortedKeys(_)
SortedKeys(ks) ==
    IF ks = {} THEN <<>>
    ELSE LET first == CHOOSE k \in ks :
                          \A j \in ks : PathRank(k) <= PathRank(j)
         IN <<first>> \o SortedKeys(ks \ {first})

\* list_objects(prefix) with a client: the remote answer holds the keys of
\* the bucket under the prefix (none when it has no "Contents").  The local
\* listing is not in a try block: an error of the file system goes to the
\* caller, and so does the ValueError of p.relative_to(self.content_dir) for
\* a file found under a search_dir outside content_dir.
ListObjectsCall(prefix, r2, local_ok, outside_files) ==
    LET call == StorageCall("list_objects", prefix, r2)
        found == {k \in DOMAIN objects : InSearchDir(k, prefix)}
        remote_keys ==
            SortedKeys({k \in DOMAIN bucket : InSearchDir(k, prefix)})
    IN
    /\ last' =
         IF ~FallsThrough(r2) THEN [call EXCEPT !.listed = remote_keys]
         ELSE IF ~local_ok
         THEN [call EXCEPT !.local = TRUE, !.failed = TRUE,
                           !.error = "OSError"]
         ELSE IF prefix = PrefixOutside /\ outside_files
         THEN [call EXCEPT !.local = TRUE, !.error = "ValueError"]
         ELSE [call EXCEPT !.local = TRUE, !.listed = SortedKeys(found)]
    /\ UNCHANGED <<bucket, objects, redis_tried, redis, rstore, table, now, tasks,
                   lastSet>>

\* ------------------------------------------------------------------ routes
\* isinstance(e, ValueError): json.JSONDecodeError and pydantic's
\* ValidationError are subclasses of ValueError.
IsValueError(exc) ==
    exc \in {"ValueError", "JSONDecodeError", "ValidationError"}

\* The status of the routes get_quiz and submit_quiz for what the service
\* call did: "except ValueError" gives 404, "except Exception" 500.  (The
\* submit route goes on to store the attempt; that part is not modelled.)
QuizRouteStatus(res) ==
    IF res.error = "none" THEN 200
    ELSE IF IsValueError(res.error) THEN 404 ELSE 500

\* ------------------------------------------------------------- environment
\* The fast store drops a key on its own (its TTL ran out, or eviction).
RedisExpire(k) ==
    /\ k \in DOMAIN rstore
    /\ rstore' = Remove(rstore, {k})
    /\ UNCHANGED <<bucket, objects, redis_tried, redis, table, now, tasks, last, lastSet>>

\* A second passes.
Tick ==
    /\ now < Epoch + MaxTicks
    /\ now' = now + 1
    /\ UNCHANGED <<bucket, objects, redis_tried, redis, rstore, table, tasks, last, lastSet>>

\* ------------------------------------------------------------ specification
\* The cache table survives restarts: the process starts with an empty table
\* or with a row an earlier run left behind, already expired or (written with
\* REDIS_CACHE_TTL=0 in the environment) without an expiry.
InitTables ==
    {EmptyMap,
     KeyC1 :> [value |-> "v1", expires_at |-> Epoch - 1],
     KeyQ1 :> [value |-> "v1", expires_at |-> NULL]}

Init ==
    /\ redis_tried = FALSE
    /\ redis = None
    /\ rstore = EmptyMap
    /\ table \in InitTables
    /\ now = Epoch
    /\ tasks = [t \in Tasks |-> IdleTask]
    /\ last = NoResult
    /\ lastSet = EmptyMap
    /\ bucket = EmptyMap
    /\ objects = EmptyMap

\* Requests with the fast store reachable or not; the clock stands still.
Next ==
    \/ \E t \in Tasks, k \in Keys, f \in BOOLEAN : CallGet(t, k, f)
    \/ \E t \in Tasks, o \in Outcomes : RedisGetDone(t, o)
    \/ \E t \in Tasks : SqliteGetSelect(t)
    \/ \E t \in Tasks : SqliteGetPurge(t)
    \/ \E t \in Tasks, k \in Keys, f \in BOOLEAN : CallSet(t, k, "v1", 0, f)
    \/ \E t \in Tasks, o \in Outcomes, a \in BOOLEAN : RedisSetDone(t, o, a)
    \/ \E t \in Tasks : SqliteSet(t)
    \/ \E t \in Tasks, k \in Keys, f \in BOOLEAN : CallDelete(t, k, f)
    \/ \E t \in Tasks, o \in Outcomes, a \in BOOLEAN : RedisDeleteDone(t, o, a)
    \/ \E t \in Tasks : SqliteDelete(t)
    \/ \E t \in Tasks, p \in Patterns, f \in BOOLEAN : CallClear(t, p, f)
    \/ \E t \in Tasks, o \in Outcomes : RedisKeysDone(t, o)
    \/ \E t \in Tasks, o \in Outcomes, a \in BOOLEAN : RedisDelKeysDone(t, o, a)
    \/ \E t \in Tasks : SqliteClearSelect(t)
    \/ \E t \in Tasks : SqliteClearDelete(t)
    \/ \E k \in Keys : RedisExpire(k)

Spec == Init /\ [][Next]_vars

\* Failures == the ways a fast-store call does not return.
Failures == Outcomes \ {"ok"}

\* Requests with the fast store forced to fail every call; the clock runs.
NextFallback ==
    \/ \E t \in Tasks, k \in Keys, f \in BOOLEAN : CallGet(t, k, f)
    \/ \E t \in Tasks, o \in Failures : RedisGetDone(t, o)
    \/ \E t \in Tasks : SqliteGetSelect(t)
    \/ \E t \in Tasks : SqliteGetPurge(t)
    \/ \E t \in Tasks, w \in Writes, f \in BOOLEAN :
          CallSet(t, w[1], w[2], w[3], f)
    \/ \E t \in Tasks, o \in Failures : RedisSetDone(t, o, FALSE)
    \/ \E t \in Tasks : SqliteSet(t)
    \/ \E t \in Tasks, k \in Keys, f \in BOOLEAN : CallDelete(t, k, f)
    \/ \E t \in Tasks, o \in Failures : RedisDeleteDone(t, o, FALSE)
    \/ \E t \in Tasks : SqliteDelete(t)
    \/ \E t \in Tasks, p \in Patterns, f \in BOOLEAN : CallClear(t, p, f)
    \/ \E t \in Tasks, o \in Failures : RedisKeysDone(t, o)
    \/ \E t \in Tasks : SqliteClearSelect(t)
    \/ \E t \in Tasks : SqliteClearDelete(t)
    \/ Tick

SpecFallback == Init /\ [][NextFallback]_vars

\* Requests of the pattern-clear scenario: the fast store is not configured,
\* entries are set without a ttl and cleared by prefix globs.
NextPattern ==
    \/ \E t \in Tasks, k \in PatternKeys : CallSet(t, k, "v1", NULL, FALSE)
    \/ \E t \in Tasks : SqliteSet(t)
    \/ \E t \in Tasks, p \in PrefixGlobs : CallClear(t, p, FALSE)
    \/ \E t \in Tasks : SqliteClearSelect(t)
    \/ \E t \in Tasks : SqliteClearDelete(t)

SpecPattern == Init /\ [][NextPattern]_vars

\* The quiz files of the content directory: all there, one of them without
\* passing_score and one not JSON, or one empty and one missing.
InitObjects ==
    {QuizObjectKey(Ch01) :> "quiz01_pretty" @@ QuizObjectKey(Ch02) :> "quiz02",
     QuizObjectKey(Ch01) :> "quiz03" @@ QuizObjectKey(Ch02) :> "garbage",
     QuizObjectKey(Ch01) :> ""}

\* The cache table at start: empty, or holding the quiz of chapter 01 as an
\* earlier run cached it, still valid or expired.
InitQuizTables ==
    {EmptyMap,
     QuizCacheKey(Ch01) :> [value |-> "quiz01", expires_at |-> Epoch + 3600],
     QuizCacheKey(Ch01) :> [value |-> "quiz02", expires_at |-> Epoch - 1]}

InitQuiz ==
    /\ redis_tried = FALSE
    /\ redis = None
    /\ rstore = EmptyMap
    /\ table \in InitQuizTables
    /\ now = Epoch
    /\ tasks = [t \in Tasks |-> IdleTask]
    /\ last = NoResult
    /\ lastSet = EmptyMap
    /\ bucket = EmptyMap
    /\ objects \in InitObjects

\* Concurrent get_quiz requests, with every step of their cache calls.
NextQuiz ==
    \/ \E t \in Tasks, ch \in Chapters, f \in BOOLEAN : CallGetQuiz(t, ch, f)
    \/ \E t \in Tasks, o \in Outcomes : RedisGetDone(t, o)
    \/ \E t \in Tasks : SqliteGetSelect(t)
    \/ \E t \in Tasks : SqliteGetPurge(t)
    \/ \E t \in Tasks, o \in Outcomes, a \in BOOLEAN : RedisSetDone(t, o, a)
    \/ \E t \in Tasks : SqliteSet(t)
    \/ \E k \in {QuizCacheKey(ch) : ch \in Chapters} : RedisExpire(k)

SpecQuiz == InitQuiz /\ [][NextQuiz]_vars

\* The submissions: up to MaxAnswers answers, each to a question of some quiz
\* or to a question of none, with one of three options selected.
QuestionIds == {"q1", "q2", "q3", "q4", "q9"}
Answers == [question_id : QuestionIds, selected_index : {0, 1, 2}]
Submissions == UNION {[1..n -> Answers] : n \in 0..MaxAnswers}

NextGrade ==
    \E ch \in Chapters, answers \in Submissions : SubmitQuiz(ch, answers)

\* Grading reads the quiz files only: the cache starts empty.
InitGrade == InitQuiz /\ table = EmptyMap

SpecGrade == InitGrade /\ [][NextGrade]_vars

\* Longer submissions for the feedback thresholds: up to MaxRepeats answers,
\* each a right answer to q1 or a wrong answer to q2 (the code accepts the
\* same question any number of times), graded against quizzes with passing
\* scores of 85, 70 and 50.
InitFeedbackObjects ==
    {QuizObjectKey(Ch01) :> "quiz04",
     QuizObjectKey(Ch01) :> "quiz01",
     QuizObjectKey(Ch01) :> "quiz02"}

InitFeedback ==
    /\ redis_tried = FALSE
    /\ redis = None
    /\ rstore = EmptyMap
    /\ table = EmptyMap
    /\ now = Epoch
    /\ tasks = [t \in Tasks |-> IdleTask]
    /\ last = NoResult
    /\ lastSet = EmptyMap
    /\ bucket = EmptyMap
    /\ objects \in InitFeedbackObjects

RepeatAnswers ==
    {[question_id |-> "q1", selected_index |-> 0],
     [question_id |-> "q2", selected_index |-> 0]}
RepeatSubmissions == UNION {[1..n -> RepeatAnswers] : n \in 0..MaxRepeats}

NextFeedback == \E answers \in RepeatSubmissions : SubmitQuiz(Ch01, answers)

SpecFeedback == InitFeedback /\ [][NextFeedback]_vars

\* The parser alone, one text a behaviour: every text of up to MaxLines lines
\* for two chapters, and three texts for every chapter id.
SampleContents ==
    {<<LineHeading>>,
     <<LineMarker, LineTitle, LineMarker, LineHeading>>,
     <<LineMarker, LineMinutes>>}

ParseInputs ==
    (Contents \X {Format02d(1), Format02d(5)})
        \cup (SampleContents \X (ChapterIds \cup OtherIds))

\* Parsing reads neither the cache nor the store.
InitParse == Init /\ table = EmptyMap

NextParse ==
    /\ last.op = "none"
    /\ \E input \in ParseInputs : ParseChapter(input[1], input[2])

SpecParse == InitParse /\ [][NextParse]_vars


\* The chapter files of the content directory: that of chapter 01.
ChapterFiles == ChapterObjectKey(Ch01) :> "md_intro"

\* Or one that does not parse, or an empty one.
BrokenChapterFiles ==
    {ChapterObjectKey(Ch01) :> "md_bad", ChapterObjectKey(Ch01) :> ""}

\* The cache table at start: empty, or holding what an earlier run left:
\* chapter 01 under its normalized key, an entry of the time before ids were
\* normalized under chapter:1, a malformed entry, an expired entry of an
\* older file.
InitChapterTables ==
    {EmptyMap,
     ChapterCacheKey(Ch01) :>
         [value |-> "ch01_intro", expires_at |-> Epoch + 3600],
     ChapterCacheKey(Ch1) :>
         [value |-> "ch1_intro", expires_at |-> Epoch + 3600],
     ChapterCacheKey(Ch1) :>
         [value |-> "garbage", expires_at |-> Epoch + 3600],
     ChapterCacheKey(Ch01) :>
         [value |-> "ch01_plain", expires_at |-> Epoch - 1]}

InitChapter ==
    /\ redis_tried = FALSE
    /\ redis = None
    /\ rstore = EmptyMap
    /\ \/ objects = ChapterFiles /\ table \in InitChapterTables
       \/ objects \in BrokenChapterFiles /\ table = EmptyMap
    /\ now = Epoch
    /\ tasks = [t \in Tasks |-> IdleTask]
    /\ last = NoResult
    /\ lastSet = EmptyMap
    /\ bucket = EmptyMap

\* The ids chapter 01 is asked with: as a number, and padded to two digits.
ChapterRequests == {Ch1, Ch01}

\* Concurrent get_chapter requests, with every step of their cache calls;
\* the clock stands still.
NextChapterRequest ==
    \/ \E t \in Tasks, ch \in ChapterRequests, f \in BOOLEAN :
          CallGetChapter(t, ch, f)
    \/ \E t \in Tasks, o \in Outcomes : RedisGetDone(t, o)
    \/ \E t \in Tasks : SqliteGetSelect(t)
    \/ \E t \in Tasks : SqliteGetPurge(t)
    \/ \E t \in Tasks, o \in Outcomes, a \in BOOLEAN : RedisSetDone(t, o, a)
    \/ \E t \in Tasks : SqliteSet(t)
    \/ \E k \in {ChapterCacheKey(ch) : ch \in ChapterRequests} :
          RedisExpire(k)

SpecChapter == InitChapter /\ [][NextChapterRequest]_vars

\* The object store alone, with a client configured: the local content
\* directory holds the files of chapter 01 or nothing, and so does the
\* remote bucket.
StorageKeys == {QuizObjectKey(Ch01), ChapterObjectKey(Ch01)}
StorageTexts == {"quiz01", ""}

InitStorage ==
    /\ redis_tried = FALSE
    /\ redis = None
    /\ rstore = EmptyMap
    /\ table = EmptyMap
    /\ now = Epoch
    /\ tasks = [t \in Tasks |-> IdleTask]
    /\ last = NoResult
    /\ lastSet = EmptyMap
    /\ bucket \in
         {EmptyMap,
          QuizObjectKey(Ch01) :> "quiz01"
              @@ ChapterObjectKey(Ch01) :> "md_intro"}
    /\ objects \in
         {EmptyMap,
          QuizObjectKey(Ch01) :> "quiz01"
              @@ ChapterObjectKey(Ch01) :> "md_intro"}

NextStorage ==
    \/ \E k \in StorageKeys, r2 \in R2Outcomes, local_ok \in BOOLEAN :
          GetObjectCall(k, r2, local_ok)
    \/ \E k \in StorageKeys, c \in StorageTexts, r2 \in R2Outcomes,
          applied \in BOOLEAN, local_ok \in BOOLEAN :
          PutObjectCall(k, c, r2, applied, local_ok)
    \/ \E k \in StorageKeys, r2 \in R2Outcomes, applied \in BOOLEAN,
          local_ok \in BOOLEAN : DeleteObjectCall(k, r2, applied, local_ok)
    \/ \E p \in Prefixes, r2 \in R2Outcomes, local_ok \in BOOLEAN,
          outside_files \in BOOLEAN :
          ListObjectsCall(p, r2, local_ok, outside_files)

SpecStorage == InitStorage /\ [][NextStorage]_vars

\* Requests against a cache that holds unusable texts: the content files
\* are all there and well-formed; the cache table is empty, or holds a text
\* that is not JSON under both keys, or an expired entry.
BadCacheKeys == {CourseCacheKey, QuizCacheKey(Ch01)}

InitBadCacheTables ==
    {EmptyMap,
     [k \in BadCacheKeys |->
         [value |-> "garbage", expires_at |-> Epoch + 3600]],
     CourseCacheKey :> [value |-> "metadata", expires_at |-> Epoch - 1]}

InitBadCache ==
    /\ redis_tried = FALSE
    /\ redis = None
    /\ rstore = EmptyMap
    /\ table \in InitBadCacheTables
    /\ now = Epoch
    /\ tasks = [t \in Tasks |-> IdleTask]
    /\ last = NoResult
    /\ lastSet = EmptyMap
    /\ bucket = EmptyMap
    /\ objects = MetadataObjectKey :> "metadata"
                     @@ QuizObjectKey(Ch01) :> "quiz01"

NextBadCache ==
    \/ \E t \in Tasks, f \in BOOLEAN : CallGetCourseMetadata(t, f)
    \/ \E t \in Tasks, f \in BOOLEAN : CallGetQuiz(t, Ch01, f)
    \/ \E t \in Tasks, o \in Outcomes : RedisGetDone(t, o)
    \/ \E t \in Tasks : SqliteGetSelect(t)
    \/ \E t \in Tasks : SqliteGetPurge(t)
    \/ \E t \in Tasks, o \in Outcomes, a \in BOOLEAN : RedisSetDone(t, o, a)
    \/ \E t \in Tasks : SqliteSet(t)
    \/ \E k \in BadCacheKeys : RedisExpire(k)

SpecBadCache == InitBadCache /\ [][NextBadCache]_vars

\* The quiz requests of both routes: get_quiz with every step of its cache
\* calls, and the submission of one right answer.
NextQuizApi ==
    \/ NextQuiz
    \/ \E ch \in Chapters :
          SubmitQuiz(ch, <<[question_id |-> "q1", selected_index |-> 0]>>)

SpecQuizApi == InitQuiz /\ [][NextQuizApi]_vars

\* Malformed cache entries an earlier run or another program left: text that
\* is not JSON under the normalized key, not expired or expired, and with it
\* the JSON of a quiz under the un-normalized key.
InitMalformedTables ==
    {ChapterCacheKey(Ch01) :>
         [value |-> "garbage", expires_at |-> Epoch + 3600],
     ChapterCacheKey(Ch1) :> [value |-> "quiz01", expires_at |-> NULL]
         @@ ChapterCacheKey(Ch01) :>
                [value |-> "garbage", expires_at |-> Epoch + 3600],
     ChapterCacheKey(Ch01) :>
         [value |-> "garbage", expires_at |-> Epoch - 1]}

\* The fast store may hold such an entry as well.
InitMalformed ==
    /\ redis_tried = FALSE
    /\ redis = None
    /\ rstore \in {EmptyMap, ChapterCacheKey(Ch01) :> "garbage"}
    /\ table \in InitMalformedTables
    /\ objects = ChapterFiles
    /\ now = Epoch
    /\ tasks = [t \in Tasks |-> IdleTask]
    /\ last = NoResult
    /\ lastSet = EmptyMap
    /\ bucket = EmptyMap

SpecMalformed == InitMalformed /\ [][NextChapterRequest]_vars

\* One request after the other: get, set and delete calls of a single task,
\* the fast store reachable, failing or absent; the clock stands still.  The
\* table starts empty or with a row an earlier run wrote in fallback mode,
\* still valid or expired.
InitSequenceTables ==
    {EmptyMap,
     KeyC1 :> [value |-> "v1", expires_at |-> Epoch + 3600],
     KeyC1 :> [value |-> "v1", expires_at |-> Epoch - 1]}

InitSequence ==
    /\ redis_tried = FALSE
    /\ redis = None
    /\ rstore = EmptyMap
    /\ table \in InitSequenceTables
    /\ now = Epoch
    /\ tasks = [t \in Tasks |-> IdleTask]
    /\ last = NoResult
    /\ lastSet = EmptyMap
    /\ bucket = EmptyMap
    /\ objects = EmptyMap

NextSequence ==
    \/ \E k \in Keys, f \in BOOLEAN : CallGet(1, k, f)
    \/ \E o \in Outcomes : RedisGetDone(1, o)
    \/ SqliteGetSelect(1)
    \/ SqliteGetPurge(1)
    \/ \E k \in Keys, f \in BOOLEAN : CallSet(1, k, "v2", 0, f)
    \/ \E o \in Outcomes, a \in BOOLEAN : RedisSetDone(1, o, a)
    \/ SqliteSet(1)
    \/ \E k \in Keys, f \in BOOLEAN : CallDelete(1, k, f)
    \/ \E o \in Outcomes, a \in BOOLEAN : RedisDeleteDone(1, o, a)
    \/ SqliteDelete(1)
    \/ \E k \in Keys : RedisExpire(k)

SpecSequence == InitSequence /\ [][NextSequence]_vars

\* ------------------------------------------------------------ AccessService
\* FREE_CHAPTERS = ["01", "02", "03"]
FREE_CHAPTERS == {<<"0", "1">>, <<"0", "2">>, <<"0", "3">>}

\* The rows the users table can give for a user id: none, a user of the free
\* tier, a premium user.
Users ==
    {NoUser, [found |-> TRUE, is_premium |-> FALSE],
     [found |-> TRUE, is_premium |-> TRUE]}

\* chapter_id in self.FREE_CHAPTERS
InFreeChapters(chapter_id) == chapter_id \in FREE_CHAPTERS

\* check_chapter_access(db, user_id, chapter_id) with user the row of
\* user_id: it has no await that suspends and runs in one step.
CheckChapterAccess(user, chapter_id) ==
    LET answer ==
            IF ~user.found THEN <<FALSE, "User not found">>
            ELSE IF InFreeChapters(chapter_id) THEN <<TRUE, "Free content">>
            ELSE IF user.is_premium THEN <<TRUE, "Premium access">>
            ELSE <<FALSE, "Premium content - upgrade required">>
    IN
    /\ last' = [NoResult EXCEPT !.op = "check_chapter_access",
                                !.chapter = chapter_id, !.user = user,
                                !.ok = answer[1], !.reason = answer[2],
                                !.before = Before]
    /\ UNCHANGED <<bucket, objects, redis_tried, redis, rstore, table, now,
                   tasks, lastSet>>

\* The chapter files of the content directory: a free chapter and a paid one.
AccessFiles ==
    ChapterObjectKey(Ch01) :> "md_intro" @@ ChapterObjectKey(Ch04) :> "md_intro"

\* Chapters 01 and 04, each asked as a number and padded to two digits.
AccessRequests == {Ch1, Ch01, <<"4">>, Ch04}

\* The cache table starts empty or with an expired entry of chapter 01.
InitAccess ==
    /\ redis_tried = FALSE
    /\ redis = None
    /\ rstore = EmptyMap
    /\ table \in {EmptyMap,
                  ChapterCacheKey(Ch01) :>
                      [value |-> "ch01_plain", expires_at |-> Epoch - 1]}
    /\ objects = AccessFiles
    /\ now = Epoch
    /\ tasks = [t \in Tasks |-> IdleTask]
    /\ last = NoResult
    /\ lastSet = EmptyMap
    /\ bucket = EmptyMap

\* One client: it asks for a chapter, waits for it and asks whether a user
\* may read a chapter; the clock stands still.
NextAccess ==
    \/ \E ch \in AccessRequests, f \in BOOLEAN : CallGetChapter(1, ch, f)
    \/ \E o \in Outcomes : RedisGetDone(1, o)
    \/ SqliteGetSelect(1)
    \/ SqliteGetPurge(1)
    \/ \E o \in Outcomes, a \in BOOLEAN : RedisSetDone(1, o, a)
    \/ SqliteSet(1)
    \/ \E user \in Users, ch \in AccessRequests :
          CanCall(1) /\ CheckChapterAccess(user, ch)

SpecAccess == InitAccess /\ [][NextAccess]_vars

\* Two writers in fallback mode: set calls of one key with two values and of
\* another key, the fast store failing every call; the clock runs.
RaceWrites == {<<KeyC1, "v1", NULL>>, <<KeyC1, "v2", 1>>, <<KeyQ1, "v2", 0>>}

NextWriters ==
    \/ \E t \in Tasks, w \in RaceWrites, f \in BOOLEAN :
           CallSet(t, w[1], w[2], w[3], f)
    \/ \E t \in Tasks, o \in Failures : RedisSetDone(t, o, FALSE)
    \/ \E t \in Tasks : SqliteSet(t)
    \/ Tick

SpecWriters == Init /\ [][NextWriters]_vars

\* The quiz requests of chapter 01 with its id as a client may write it.
QuizRequests == {Ch1, Ch01}

\* The quiz files as the course ships them: quiz-01.json and quiz-02.json.
InitObjectsShipped ==
    QuizObjectKey(Ch01) :> "quiz01_pretty" @@ QuizObjectKey(Ch02) :> "quiz02"

InitQuizIds == InitQuiz /\ objects = InitObjectsShipped

NextQuizIds ==
    \/ \E t \in Tasks, ch \in QuizRequests, f \in BOOLEAN :
           CallGetQuiz(t, ch, f)
    \/ \E t \in Tasks, o \in Outcomes : RedisGetDone(t, o)
    \/ \E t \in Tasks : SqliteGetSelect(t)
    \/ \E t \in Tasks : SqliteGetPurge(t)
    \/ \E t \in Tasks, o \in Outcomes, a \in BOOLEAN : RedisSetDone(t, o, a)
    \/ \E t \in Tasks : SqliteSet(t)
    \/ \E ch \in QuizRequests :
           SubmitQuiz(ch, <<[question_id |-> "q1", selected_index |-> 0]>>)

SpecQuizIds == InitQuizIds /\ [][NextQuizIds]_vars

\* ================================================================== claims
RedisPcs == {"redis_get", "redis_set", "redis_delete", "redis_keys",
             "redis_del_keys"}
SqlPcs == {"sql_get", "sql_get_purge", "sql_set", "sql_delete", "sql_clear",
           "sql_clear_delete"}

\* The call of task t returns in this step.
Returns(t) == tasks[t].pc # "idle" /\ tasks'[t].pc = "idle"

\* The SELECT of a fallback get of task t runs in this step.
Selects(t) == tasks[t].pc = "sql_get" /\ tasks'[t].pc # "sql_get"

\* The fallback set, delete and get of task t do their work on the table.
FallbackWorks(t) ==
    LET me == tasks[t] IN
    /\ (me.pc = "sql_set" /\ Returns(t)) =>
          /\ last'.op = "set" /\ last'.ok /\ last'.via = "sqlite"
          /\ me.key \in DOMAIN table' /\ table'[me.key].value = me.value
    /\ (me.pc = "sql_delete" /\ Returns(t)) =>
          /\ last'.op = "delete" /\ last'.via = "sqlite"
          /\ last'.ok = (me.key \in DOMAIN table)
          /\ me.key \notin DOMAIN table'
    /\ (me.pc \in {"sql_get", "sql_get_purge"} /\ Returns(t)) =>
          last'.op = "get" /\ last'.via = "sqlite"

C3_OneWay ==
    [][(redis_tried /\ redis = None) =>
          /\ redis' = None
          /\ \A t \in Tasks :
                tasks'[t].pc \in RedisPcs => tasks'[t].pc = tasks[t].pc]_vars

\* The client was healthy (the fast store holds an entry), was disabled by a
\* failed call, and a later call was served by the fallback alone.
C3_Witness ==
    /\ redis_tried /\ redis = None
    /\ rstore # EmptyMap
    /\ last.op # "none" /\ ~last.failed /\ last.via = "sqlite"

C6_Claim ==
    [][\A t \in Tasks :
          (/\ Selects(t)
           /\ tasks[t].key \in DOMAIN lastSet
           /\ lastSet[tasks[t].key].ttl = 0) =>
             \/ tasks'[t].pc = "sql_get_purge"
             \/ /\ last'.ret = None
                /\ tasks[t].key \notin DOMAIN table']_vars

\* C7: a fallback get of a row whose expires_at lies in the past returns
\* absent and deletes the row; a row with no or a later expires_at is
\* returned as it is and stays; the other rows are never touched.
C7_GetExpiry ==
    [][\A t \in Tasks :
          LET k == tasks[t].key IN
          /\ Selects(t) =>
                /\ table' = table
                /\ IF k \notin DOMAIN table
                   THEN Returns(t) /\ last'.ret = None
                   ELSE IF table[k].expires_at # NULL
                           /\ table[k].expires_at < now
                   THEN tasks'[t].pc = "sql_get_purge"
                   ELSE Returns(t) /\ last'.ret = table[k].value
          /\ tasks[t].pc = "sql_get_purge" /\ tasks'[t].pc # "sql_get_purge" =>
                /\ Returns(t) /\ last'.op = "get" /\ last'.ret = None
                /\ table' = Remove(table, {k})]_vars

\* A get found an expired row, deleted it and returned absent, while a row
\* with a later expires_at is still in the table.
C7_Witness ==
    /\ last.op = "get" /\ last.purged /\ last.ret = None
    /\ last.key \notin DOMAIN table
    /\ \E k \in DOMAIN table : table[k].expires_at > now

\* The key k starts with the characters of p.
HasPrefix(p, k) == Len(k) >= Len(p) /\ SubSeq(k, 1, Len(p)) = p

\* The p of a glob 'p*'.
GlobPrefix(g) == SubSeq(g, 1, Len(g) - 1)

\* C8 as stated: in fallback mode clear_pattern('p*') removes exactly the rows
\* whose key starts with p, leaves every other row as it is and returns the
\* number of rows removed.
C8_Claim ==
    [][\A t \in Tasks :
          LET me == tasks[t]
              starts == {k \in DOMAIN table :
                            HasPrefix(GlobPrefix(me.pattern), k)}
          IN
          /\ (me.pc = "sql_clear" /\ Returns(t)) =>
                starts = {} /\ last'.count = 0 /\ table' = table
          /\ (me.pc = "sql_clear_delete" /\ Returns(t)) =>
                /\ table' = Remove(table, starts)
                /\ last'.count = Cardinality(starts)]_vars

\* C1: every question of a quiz that get_quiz returns carries none of the
\* fields correct_answer_index, correct_answer and explanation, whether the
\* quiz data came from the cache or from the store.
C1_NoAnswers ==
    (last.op = "get_quiz" /\ last.error = "none") =>
        \A i \in DOMAIN last.quiz.questions :
            DOMAIN last.quiz.questions[i] \cap SecretFields = {}

\* get_quiz returned a two-question quiz from a cache hit while the cached
\* text holds the answer key of a question.
C1_Witness ==
    /\ last.op = "get_quiz" /\ last.error = "none" /\ last.via = "cache"
    /\ Len(last.quiz.questions) = 2
    /\ QuizCacheKey(last.chapter) \in DOMAIN table
    /\ LET cached == JsonLoads(table[QuizCacheKey(last.chapter)].value) IN
       \E i \in 1..2 : "correct_answer_index" \in DOMAIN cached.questions[i]

\* The quiz file submit_quiz graded against.
GradedQuiz == JsonLoads(objects[QuizObjectKey(last.chapter)])

\* The correct option of question q as the quiz file states it.
AnswerKey(q) ==
    IF "correct_answer_index" \in DOMAIN q THEN q.correct_answer_index
    ELSE IF q.correct_answer THEN 1 ELSE 0

\* The answer a names a question of the graded quiz and selects its correct
\* option.
IsRight(a) ==
    \E i \in DOMAIN GradedQuiz.questions :
        /\ GradedQuiz.questions[i].question_id = a.question_id
        /\ a.selected_index = AnswerKey(GradedQuiz.questions[i])

\* The submission with indices [0, 1] for the questions q1 and q2.
ExampleAnswers ==
    <<[question_id |-> "q1", selected_index |-> 0],
      [question_id |-> "q2", selected_index |-> 1]>>

\* C9: submit_quiz returns correct_answers = the number of submitted answers
\* that name a quiz question and select its correct option, score =
\* correct_answers / number of submitted answers * 100, and passed iff score
\* >= the quiz's passing_score (70 when there is none); answer keys 0 and 2
\* with indices [0, 1] give correct_answers = 1 and score = 50.
C9_Grading ==
    (last.op = "submit_quiz" /\ last.error = "none" /\ last.answers # <<>>) =>
        LET right == Cardinality({i \in DOMAIN last.answers :
                                     IsRight(last.answers[i])})
            passing == IF "passing_score" \in DOMAIN GradedQuiz
                       THEN GradedQuiz.passing_score ELSE 70
        IN
        /\ last.correct_answers = right
        /\ last.score.den > 0
        /\ last.score.num * Len(last.answers) = right * 100 * last.score.den
        /\ last.passed <=> (last.score.num >= passing * last.score.den)
        /\ (last.quiz_id = "quiz-01" /\ last.answers = ExampleAnswers) =>
              /\ last.correct_answers = 1
              /\ last.score.num = 50 * last.score.den

\* The quiz with answer keys 0 and 2 was graded for the indices [0, 1].
C9_Witness ==
    /\ last.op = "submit_quiz" /\ last.error = "none"
    /\ last.quiz_id = "quiz-01" /\ last.answers = ExampleAnswers
    /\ last.total_questions = 2 /\ ~last.passed

\* C10: submit_quiz with an empty answer list for an existing quiz raises
\* nothing and returns score 0, correct_answers 0 and total_questions 0.
C10_EmptySubmission ==
    (/\ last.op = "submit_quiz" /\ last.answers = <<>>
     /\ JsonValid(GetObject(QuizObjectKey(last.chapter)))) =>
        /\ last.error = "none"
        /\ last.score.num = 0 /\ last.score.den > 0
        /\ last.correct_answers = 0
        /\ last.total_questions = 0

\* An empty submission was graded against the quiz file without
\* passing_score.
C10_Witness ==
    /\ last.op = "submit_quiz" /\ last.answers = <<>> /\ last.error = "none"
    /\ last.quiz_id = "quiz-03" /\ ~last.passed

\* C11 as stated: the feedback of a quiz result is the mastery message for a
\* score >= 90, the strong-understanding message for a score >= 80, the
\* encouragement-passed message for a passed result below 80 and the
\* encouragement-retry message for every failed result.
C11_Original ==
    (last.op = "submit_quiz" /\ last.error = "none") =>
        /\ AtLeast(last.score, 90) => last.feedback = "Excellent work!"
        /\ (AtLeast(last.score, 80) /\ ~AtLeast(last.score, 90)) =>
              last.feedback = "Great job!"
        /\ (last.passed /\ ~AtLeast(last.score, 80)) =>
              last.feedback = "Good work!"
        /\ ~last.passed => last.feedback = "Keep learning!"

\* C11 amended: the thresholds come first.  A score >= 90 gives the mastery
\* message and a score >= 80 the strong-understanding message whether the
\* result passed or not; below 80 a passed result gets the
\* encouragement-passed message and a failed one the encouragement-retry
\* message.
C11_Amended ==
    (last.op = "submit_quiz" /\ last.error = "none") =>
        last.feedback =
            IF AtLeast(last.score, 90) THEN "Excellent work!"
            ELSE IF AtLeast(last.score, 80) THEN "Great job!"
            ELSE IF last.passed THEN "Good work!"
            ELSE "Keep learning!"

\* Four right answers out of five against a passing score of 85: the result
\* failed and carries the strong-understanding message.
C11_Witness ==
    /\ last.op = "submit_quiz" /\ last.error = "none"
    /\ last.total_questions = 5 /\ last.correct_answers = 4
    /\ ~last.passed /\ last.feedback = "Great job!"

\* The ten chapter ids as they are written, in order.
TwoDigits ==
    <<<<"0", "1">>, <<"0", "2">>, <<"0", "3">>, <<"0", "4">>, <<"0", "5">>,
      <<"0", "6">>, <<"0", "7">>, <<"0", "8">>, <<"0", "9">>, <<"1", "0">>>>

\* A text was parsed as chapter n of the ten.
ParsedAs(n) ==
    last.op = "parse" /\ last.error = "none" /\ last.chapter = TwoDigits[n]

\* C14: for every chapter id "01".."10" the parsed chapter has no
\* previous_chapter exactly for "01", no next_chapter exactly for "10", and
\* otherwise the numerically adjacent ids written with two digits.
C14_Navigation ==
    \A n \in 1..10 :
        ParsedAs(n) =>
            /\ last.data.previous_chapter =
                   IF n = 1 THEN NoChapter ELSE TwoDigits[n - 1]
            /\ last.data.next_chapter =
                   IF n = 10 THEN NoChapter ELSE TwoDigits[n + 1]

C14_Witness ==
    /\ ParsedAs(10)
    /\ last.data.previous_chapter = TwoDigits[9]
    /\ last.data.next_chapter = NoChapter

\* C15: for each of the ten chapters the computed is_free flag is true if and
\* only if the numeric id is at most 3.
C15_IsFree == \A n \in 1..10 : ParsedAs(n) => (last.data.is_free <=> n <= 3)

C15_Witness ==
    /\ ParsedAs(3) /\ last.data.is_free
    /\ last.text = <<LineMarker, LineTitle, LineMarker, LineHeading>>

\* The reference parser.  A marker is a line that reads '---'; the closing
\* marker is the first one after the first line.
RefMarker(line) == Strip(line) = MARKER
RefClosed(lines) ==
    RefMarker(lines[1]) /\ \E c \in 2..Len(lines) : RefMarker(lines[c])
RefClosing(lines) ==
    CHOOSE c \in 2..Len(lines) :
        RefMarker(lines[c]) /\ \A j \in 2..(c - 1) : ~RefMarker(lines[j])

\* v without its surrounding double quotes.
RefUnquoted(v) ==
    LET inner == {i \in DOMAIN v : v[i] # "\""} IN
    IF inner = {} THEN <<>>
    ELSE SubSeq(v, CHOOSE a \in inner : \A i \in inner : a <= i,
                   CHOOSE b \in inner : \A i \in inner : b >= i)

\* The value of the last "key: value" line between the markers, default
\* when there is none.
RefValue(lines, key, default) ==
    LET at == {j \in 2..(RefClosing(lines) - 1) :
                  HasColon(lines[j]) /\ Strip(SplitKey(lines[j])) = key}
        j == CHOOSE j \in at : \A i \in at : j >= i
    IN IF at = {} THEN default
       ELSE RefUnquoted(Strip(SplitValue(lines[j])))

ChapterPair == last.op = "get_chapter" /\ last.before.op = "get_chapter"

\* One of the two was asked with "1", the other with "01", and the earlier
\* one read the chapter file and populated the cache.
OneAndPadded ==
    /\ ChapterPair
    /\ {last.chapter, last.before.chapter} = {Ch1, Ch01}
    /\ last.before.via = "store"

\* C12 as stated: get_chapter("1") and get_chapter("01") resolve to the same
\* cache entry (key chapter:01) and return identical Chapter data, in either
\* call order and whichever of the two calls populated the cache.
C12_Original ==
    OneAndPadded =>
        /\ last.ok /\ last.data = last.before.data
        /\ last.via = "cache" => last.key = ChapterCacheKey(Ch01)

\* C12 amended: the same, unless the later call is get_chapter("1") served
\* from an entry under the un-normalized key chapter:1, which it tries first.
C12_Amended ==
    (OneAndPadded
        /\ ~(last.via = "cache" /\ last.key = ChapterCacheKey(Ch1))) =>
        /\ last.ok /\ last.data = last.before.data
        /\ last.via = "cache" => last.key = ChapterCacheKey(Ch01)

C12_Witness ==
    /\ OneAndPadded
    /\ last.before.chapter = Ch01 /\ last.chapter = Ch1
    /\ last.via = "cache" /\ last.key = ChapterCacheKey(Ch01)
    /\ last.data.chapter_id = Ch01

C17_RemoteErrors ==
    last.op = "get_object" =>
        /\ (last.ret = None /\ ~last.local) <=> last.r2 = "NoSuchKey"
        /\ last.r2 \in {"ClientError", "Exception"} =>
              /\ last.error = "none" /\ last.local
              /\ last.ret = IF ~last.failed /\ last.key \in DOMAIN objects
                            THEN objects[last.key] ELSE None

C17_Witness ==
    /\ last.op = "get_object" /\ last.r2 = "ClientError"
    /\ last.local /\ last.ret = "md_intro"

\* C18: get, put, list and delete of the object store never raise to the
\* caller: a failing remote call falls through to the local backend, and
\* when the local backend fails as well the call returns absent (get), false
\* (put, delete) or a key sequence (list).
C18_NeverRaise ==
    (last.op \in {"get_object", "put_object", "list_objects",
                  "delete_object"} /\ last.r2 # "ok") =>
        /\ last.error = "none"
        /\ last.r2 # "NoSuchKey" => last.local
        /\ last.failed =>
              /\ last.op = "get_object" => last.ret = None
              /\ last.op \in {"put_object", "delete_object"} => ~last.ok

\* C19: a cached value that fails to parse is treated as a cache miss in
\* get_course_metadata and in get_quiz: the data is fetched from the store
\* and no error caused by the bad cache entry reaches the HTTP layer.  (With
\* every content file there and well-formed, an error can only come from the
\* cache entry.)
C19_BadCacheIsMiss ==
    last.op \in {"get_course_metadata", "get_quiz"} =>
        last.error = "none" /\ (last.op = "get_course_metadata" => last.ok)

\* No quiz exists for the chapter: get_object gives nothing for its key.
QuizMissing(chapter_id) ==
    GetObject(QuizObjectKey(chapter_id)) \in {None, ""}

\* C20: get_quiz and submit_quiz fail with NotFound (a ValueError, which the
\* routes turn into 404) if and only if no quiz exists for the chapter (and
\* none is cached); a quiz that exists but fails to parse or to validate is
\* a hard failure, distinguishable from NotFound.
C20_NotFound ==
    last.op \in {"get_quiz", "submit_quiz"} =>
        /\ QuizRouteStatus(last) = 404 => QuizMissing(last.chapter)
        /\ (QuizMissing(last.chapter) /\ last.via # "cache") =>
               QuizRouteStatus(last) = 404
        /\ last.error \in {"JSONDecodeError", "ValidationError"} =>
               QuizRouteStatus(last) = 500

\* The two-digit form of a numeric chapter id of the ten.
TwoDigitId(chapter_id) == TwoDigits[ToInt(chapter_id)]

\* C21: for every numeric chapter id, zero-padded or not, get_quiz and
\* submit_quiz read the quiz definition from the store key
\* genai-fundamentals/quizzes/quiz-{2-digit-id}.json.
C21_QuizKey ==
    (last.op \in {"get_quiz", "submit_quiz"} /\ last.object_key # <<>>) =>
        last.object_key =
            <<COURSE_PREFIX, "/quizzes/quiz-", TwoDigitId(last.chapter),
              ".json">>

\* C22: each call of the embedded fallback store is atomic with respect to
\* the calls of other requests: the expiry purge of a get removes only the
\* expired row its SELECT saw, never a row a concurrent set wrote since, and
\* clear_pattern returns the number of rows it deleted.
C22_Atomic ==
    [][\A t \in Tasks :
          LET k == tasks[t].key IN
          /\ (tasks[t].pc = "sql_get_purge" /\ Returns(t)
                /\ k \in DOMAIN table) => Expired(table[k], now)
          /\ (tasks[t].pc \in {"sql_clear", "sql_clear_delete"} /\ Returns(t))
                => last'.count = Cardinality(DOMAIN table \ DOMAIN table')]_vars

\* C23: two requests that set the same key concurrently in fallback mode
\* leave exactly one row for the key, holding the value and expiry of the
\* write executed last: each executed write replaces the whole row of its
\* key and nothing else, and nothing but an executed write changes the table.
C23_LastWriteWins ==
    [][/\ \A t \in Tasks :
             (tasks[t].pc = "sql_set" /\ Returns(t)) =>
                LET k == tasks[t].key IN
                /\ DOMAIN table' = DOMAIN table \cup {k}
                /\ table'[k].value = tasks[t].value
                /\ table'[k].expires_at =
                       IF Truthy(tasks[t].ttl) THEN now + tasks[t].ttl
                       ELSE NULL
                /\ \A j \in DOMAIN table \ {k} : table'[j] = table[j]
                /\ last'.op = "set" /\ last'.ok
       /\ table' # table =>
             \E t \in Tasks : tasks[t].pc = "sql_set" /\ Returns(t)]_vars

\* Two writers of the same key at once: the write of "v2" has been executed
\* and returned, over a row another value was in, while the write of "v1" to
\* the same key is still with the executor.
C23_Witness ==
    /\ redis = None
    /\ last.op = "set" /\ last.ok /\ last.key = KeyC1
    /\ KeyC1 \in DOMAIN table /\ table[KeyC1].value = "v2"
    /\ \E t \in Tasks :
          /\ tasks[t].pc = "sql_set" /\ tasks[t].key = KeyC1
          /\ tasks[t].value = "v1"

\* C24: in get_chapter a cache entry that does not parse as chapter data is
\* a miss: with the chapter file there, every request returns the chapter
\* assembled from the file and raises nothing, and a request that fetched the
\* file has written the chapter under chapter:{normalized_id} (with a ttl of
\* one hour) into the store of the cache that carried out its set.
C24_MalformedIsMiss ==
    [][/\ last'.op = "get_chapter" =>
             /\ last'.ok /\ last'.error = "none"
             /\ last'.data = ParseChapterMarkdown(MarkdownLines("md_intro"),
                                                  Ch01)
       /\ \A t \in Tasks :
             (tasks[t].caller = "get_chapter" /\ Returns(t)
                /\ last'.via = "store") =>
                LET k == <<"c", "h", "a", "p", "t", "e", "r", ":">>
                             \o TwoDigitId(tasks[t].chapter)
                IN
                \/ k \in DOMAIN rstore' /\ rstore'[k] = "ch01_intro"
                \/ /\ k \in DOMAIN table'
                   /\ table'[k] = [value |-> "ch01_intro",
                                   expires_at |-> now + 3600]]_vars

\* get_chapter("1") in fallback mode passed over the quiz text under
\* chapter:1, which is still there, and over the text under chapter:01, read
\* the file and left the chapter under chapter:01.
C24_Witness ==
    /\ last.op = "get_chapter" /\ last.chapter = Ch1
    /\ last.ok /\ last.via = "store"
    /\ redis = None /\ rstore = EmptyMap
    /\ ChapterCacheKey(Ch1) \in DOMAIN table
    /\ table[ChapterCacheKey(Ch1)].value = "quiz01"
    /\ table[ChapterCacheKey(Ch01)].value = "ch01_intro"

\* The result of submit_quiz is that of grading against the quiz file the
\* store holds for the chapter: ValueError without a file, else the file's
\* quiz_id and the number of answers right by the file's answer key.
SubmitFromStore ==
    last.op = "submit_quiz" =>
        IF QuizMissing(last.chapter) THEN last.error = "ValueError"
        ELSE IF ~JsonValid(objects[QuizObjectKey(last.chapter)])
        THEN last.error = "JSONDecodeError"
        ELSE /\ last.quiz_id = GradedQuiz.quiz_id
             /\ last.correct_answers =
                    Cardinality({i \in DOMAIN last.answers :
                                    IsRight(last.answers[i])})

\* C25: submit_quiz neither reads nor writes the cache: the cache client, the
\* fast store and the fallback table are the same before and after it, and
\* its result is that of the quiz the durable store holds, whatever quiz the
\* cache holds for the chapter.
C25_BypassesCache ==
    [][(last.op = "none" /\ last'.op = "submit_quiz") =>
          /\ table' = table /\ rstore' = rstore
          /\ redis' = redis /\ redis_tried' = redis_tried
          /\ tasks' = tasks
          /\ SubmitFromStore']_vars

\* A submission for chapter 01 was graded against the stored quiz-03, which
\* has no question q1, while the cache holds quiz-01 for the chapter, not
\* expired.
C25_Witness ==
    /\ last.op = "submit_quiz" /\ last.chapter = Ch01
    /\ last.error = "none" /\ last.quiz_id = "quiz-03"
    /\ last.correct_answers = 0
    /\ QuizCacheKey(Ch01) \in DOMAIN table
    /\ table[QuizCacheKey(Ch01)].value = "quiz01"
    /\ ~Expired(table[QuizCacheKey(Ch01)], now)

\* C26: a chapter text that starts with a '---' line and has no closing
\* '---' line has no frontmatter block: parsing raises nothing, content is
\* the entire text, and title, level and estimated_minutes are the defaults
\* 'Chapter {id}', 'beginner' and 180.
C26_Unclosed ==
    (/\ last.op = "parse"
     /\ RefMarker(last.text[1]) /\ ~RefClosed(last.text)) =>
        /\ last.error = "none"
        /\ last.data.content = last.text
        /\ last.data.title = CHAPTER_ \o last.chapter
        /\ last.data.level = BEGINNER
        /\ last.data.estimated_minutes = 180

C28_ReadAfterWrite ==
    [][(/\ last.op = "put_object" /\ last.ok
        /\ last'.op = "get_object" /\ last'.key = last.key)
          => last'.ret = last.content]_vars

\* The questions of the graded quiz the submission answered correctly, each
\* counted once.
QuestionsRight ==
    {i \in DOMAIN GradedQuiz.questions :
        \E j \in DOMAIN last.answers :
            /\ last.answers[j].question_id =
                   GradedQuiz.questions[i].question_id
            /\ last.answers[j].selected_index =
                   AnswerKey(GradedQuiz.questions[i])}

\* C29: a quiz result with passed = true implies that the submission
\* answered correctly at least passing_score percent (70 when the quiz names
\* none) of the questions of the quiz, each question counted at most once.
C29_PassMeansEnough ==
    (last.op = "submit_quiz" /\ last.error = "none" /\ last.passed) =>
        LET passing == IF "passing_score" \in DOMAIN GradedQuiz
                       THEN GradedQuiz.passing_score ELSE 70
        IN Cardinality(QuestionsRight) * 100
               >= passing * Len(GradedQuiz.questions)

\* C30: for every chapter id for which get_chapter returned a chapter and
\* every existing non-premium user, check_chapter_access grants access if
\* and only if the chapter's is_free flag is true, un-padded ids included.
C30_RulesAgree ==
    (/\ last.op = "check_chapter_access"
     /\ last.user.found /\ ~last.user.is_premium
     /\ last.before.op = "get_chapter" /\ last.before.ok
     /\ last.before.chapter = last.chapter) =>
        (last.ok <=> last.before.data.is_free)

================================================================
